---------------------------- MODULE Spec2Model ----------------------------
(***************************************************************************)
(* Payment verification and plan upgrade of the survey dashboard:          *)
(* MpesaVerifier, PlanUpgradeService, MessageProcessor, the useSurveyData   *)
(* hook, the AutoUpgradeHandler paste listener and the MpesaVerification    *)
(* form.                                                                    *)
(*                                                                         *)
(* Text is a sequence of one-character strings.  Numbers produced by        *)
(* parseFloat are kept in hundredths (250.00 is 25000), which is exact for  *)
(* every text with at most two fraction digits; NaN is the value NaN.       *)
(***************************************************************************)
EXTENDS Integers, Sequences, FiniteSets, TLC

(***************************************************************************)
(* Bounds of the model.                                                    *)
(***************************************************************************)
MaxFrags == 3

(***************************************************************************)
(* Characters and the string primitives of the JavaScript runtime.         *)
(***************************************************************************)
LowerCase ==
    <<"a", "b", "c", "d", "e", "f", "g", "h", "i", "j", "k", "l", "m",
      "n", "o", "p", "q", "r", "s", "t", "u", "v", "w", "x", "y", "z">>
UpperCase ==
    <<"A", "B", "C", "D", "E", "F", "G", "H", "I", "J", "K", "L", "M",
      "N", "O", "P", "Q", "R", "S", "T", "U", "V", "W", "X", "Y", "Z">>
DigitChars == <<"0", "1", "2", "3", "4", "5", "6", "7", "8", "9">>

Range(f) == {f[i] : i \in DOMAIN f}
Digit == Range(DigitChars)
Letter == Range(LowerCase) \cup Range(UpperCase)
Space == {" ", "\t", "\n"}
DigitComma == Digit \cup {","}
ColonSpace == Space \cup {":"}
LetterSpace == Letter \cup Space
AlphaNum == Letter \cup Digit

Min(S) == CHOOSE x \in S : \A y \in S : x <= y
Max(S) == CHOOSE x \in S : \A y \in S : x >= y

\* String.prototype.toUpperCase, one character
ToUpperChar(c) ==
    IF c \in Range(LowerCase)
    THEN UpperCase[CHOOSE i \in DOMAIN LowerCase : LowerCase[i] = c]
    ELSE c

\* String.prototype.toUpperCase
ToUpperCase(s) == [i \in 1..Len(s) |-> ToUpperChar(s[i])]

\* String.prototype.trim
Trim(s) ==
    LET keep == {i \in 1..Len(s) : s[i] \notin Space}
    IN  IF keep = {} THEN <<>> ELSE SubSeq(s, Min(keep), Max(keep))

\* the text t stands in s at position i
OccursAt(s, i, t) ==
    /\ i >= 1
    /\ i + Len(t) - 1 <= Len(s)
    /\ \A k \in 1..Len(t) : s[i + k - 1] = t[k]

\* String.prototype.includes
Includes(s, t) == \E i \in 1..(Len(s) + 1) : OccursAt(s, i, t)

\* a literal of a regular expression with the i flag, at position i
LitAt(s, i, t) ==
    /\ i >= 1
    /\ i + Len(t) - 1 <= Len(s)
    /\ \A k \in 1..Len(t) : ToUpperChar(s[i + k - 1]) = ToUpperChar(t[k])

\* the position after the longest run of characters of set C that starts at i
RunEnd(s, i, C) ==
    IF i > Len(s) THEN i
    ELSE CHOOSE j \in i..(Len(s) + 1) :
            /\ \A k \in i..(j - 1) : s[k] \in C
            /\ (j = Len(s) + 1 \/ s[j] \notin C)

\* s[i] is a character of set C
IsAt(s, i, C) == i >= 1 /\ i <= Len(s) /\ s[i] \in C

RECURSIVE Concat(_)
Concat(ss) == IF ss = <<>> THEN <<>> ELSE Head(ss) \o Concat(Tail(ss))

(***************************************************************************)
(* Number(text) for the digits of a captured group.                        *)
(***************************************************************************)
DigitValue(c) == (CHOOSE i \in DOMAIN DigitChars : DigitChars[i] = c) - 1

RECURSIVE DigitsValue(_)
DigitsValue(s) ==
    IF s = <<>> THEN 0
    ELSE 10 * DigitsValue(SubSeq(s, 1, Len(s) - 1)) + DigitValue(s[Len(s)])

NaN == -1

\* parseFloat: the longest prefix digits [. digits], in hundredths
ParseFloat(s) ==
    LET e1   == RunEnd(s, 1, Digit)
        int  == SubSeq(s, 1, e1 - 1)
        dot  == IsAt(s, e1, {"."})
        e2   == IF dot THEN RunEnd(s, e1 + 1, Digit) ELSE e1
        frac == IF dot THEN SubSeq(s, e1 + 1, e2 - 1) ELSE <<>>
        f2   == SubSeq(frac \o <<"0", "0">>, 1, 2)
    IN  IF int = <<>> /\ frac = <<>> THEN NaN
        ELSE 100 * DigitsValue(int) + DigitsValue(f2)

\* parseInt: the leading digits, in hundredths
ParseInt(s) ==
    LET e1 == RunEnd(s, 1, Digit)
    IN  IF e1 = 1 THEN NaN ELSE 100 * DigitsValue(SubSeq(s, 1, e1 - 1))

\* text.replace(/,/g, '')
RemoveCommas(s) == SelectSeq(s, LAMBDA c : c # ",")

(***************************************************************************)
(* Optional values: a match that failed, a field that is undefined.        *)
(***************************************************************************)
None == <<>>
Some(x) == <<x>>
IsSome(o) == o # <<>>
Get(o) == o[1]

\* the leftmost position of 1..Len(s) that satisfies P, as an optional value
FirstPos(s, P(_)) ==
    LET hits == {i \in 1..Len(s) : P(i)}
    IN  IF hits = {} THEN None ELSE Some(Min(hits))

(***************************************************************************)
(* MpesaVerifier.extractMessageDetails: the four patterns.                  *)
(***************************************************************************)
\* the end of [\d,]+\.?\d* started at j (all three parts are greedy)
\* the capture ends before the fraction
NumberEnd_NoFraction(s, j) == RunEnd(s, j, DigitComma)

NumberEnd(s, j) ==
    LET e1 == RunEnd(s, j, DigitComma)
    IN  IF IsAt(s, e1, {"."}) THEN RunEnd(s, e1 + 1, Digit) ELSE e1

\* <word>\s*([\d,]+\.?\d*) at position i, for one of the words
WordNumberAt(s, i, words) ==
    \E w \in words :
        /\ LitAt(s, i, w)
        /\ IsAt(s, RunEnd(s, i + Len(w), Space), DigitComma)

WordNumberCapture(s, i, words) ==
    LET w == CHOOSE w \in words : LitAt(s, i, w)
        j == RunEnd(s, i + Len(w), Space)
    IN  SubSeq(s, j, NumberEnd(s, j) - 1)

KSH == <<"K", "S", "H">>
KES == <<"K", "E", "S">>

\* message.match(/KSH\s*([\d,]+\.?\d*)/i), group 1
AmountMatch(s) ==
    LET at == FirstPos(s, LAMBDA i : WordNumberAt(s, i, {KSH}))
    IN  IF IsSome(at) THEN Some(WordNumberCapture(s, Get(at), {KSH})) ELSE None

TXN == <<"T", "X", "N">>
TRANSACTION == <<"T", "R", "A", "N", "S", "A", "C", "T", "I", "O", "N">>
ID == <<"I", "D">>

\* (?:TXN\s*ID|TRANSACTION\s*ID)[:\s]* at i: the position of group 1
TxnGroupStart(s, i) ==
    LET w == IF LitAt(s, i, TXN) THEN TXN ELSE TRANSACTION
        k == RunEnd(s, i + Len(w), Space)
    IN  RunEnd(s, k + Len(ID), ColonSpace)

TxnAt(s, i) ==
    /\ LitAt(s, i, TXN) \/ LitAt(s, i, TRANSACTION)
    /\ LET w == IF LitAt(s, i, TXN) THEN TXN ELSE TRANSACTION
       IN  LitAt(s, RunEnd(s, i + Len(w), Space), ID)
    /\ IsAt(s, TxnGroupStart(s, i), AlphaNum)

\* message.match(/(?:TXN\s*ID|TRANSACTION\s*ID)[:\s]*([A-Z0-9]+)/i), group 1
TxnMatch(s) ==
    LET at == FirstPos(s, LAMBDA i : TxnAt(s, i))
    IN  IF IsSome(at)
        THEN LET j == TxnGroupStart(s, Get(at))
             IN  Some(SubSeq(s, j, RunEnd(s, j, AlphaNum) - 1))
        ELSE None

AM == <<"A", "M">>
PM == <<"P", "M">>

\* \d{lo,hi} followed by a character that is no digit: the run decides
DigitsBetween(s, i, lo, hi) ==
    LET n == RunEnd(s, i, Digit) - i
    IN  n >= lo /\ n <= hi

\* positions of the parts of \d{1,2}\/\d{1,2}\/\d{2,4}\s+\d{1,2}:\d{2} from i
TimeParts(s, i) ==
    LET a == RunEnd(s, i, Digit)
        b == RunEnd(s, a + 1, Digit)
        c == RunEnd(s, b + 1, Digit)
        d == RunEnd(s, c, Space)
        e == RunEnd(s, d, Digit)
    IN  <<a, b, c, d, e>>

TimeAt(s, i) ==
    LET p == TimeParts(s, i)
    IN  /\ DigitsBetween(s, i, 1, 2) /\ IsAt(s, p[1], {"/"})
        /\ DigitsBetween(s, p[1] + 1, 1, 2) /\ IsAt(s, p[2], {"/"})
        /\ DigitsBetween(s, p[2] + 1, 2, 4)
        /\ p[4] > p[3]
        /\ DigitsBetween(s, p[4], 1, 2) /\ IsAt(s, p[5], {":"})
        /\ IsAt(s, p[5] + 1, Digit) /\ IsAt(s, p[5] + 2, Digit)

\* the end of \s*(?:AM|PM)? started at j: \s* is greedy and keeps its spaces
TimeEnd(s, j) ==
    LET k == RunEnd(s, j, Space)
    IN  IF LitAt(s, k, AM) \/ LitAt(s, k, PM) THEN k + 2 ELSE k

\* message.match(/(\d{1,2}\/\d{1,2}\/\d{2,4}\s+\d{1,2}:\d{2}\s*(?:AM|PM)?)/i)
TimeMatch(s) ==
    LET at == FirstPos(s, LAMBDA i : TimeAt(s, i))
    IN  IF IsSome(at)
        THEN LET p == TimeParts(s, Get(at))
             IN  Some(SubSeq(s, Get(at), TimeEnd(s, p[5] + 3) - 1))
        ELSE None

TO == <<"T", "O">>
PAID == <<"P", "A", "I", "D">>
ON == <<"O", "N">>

\* the position after (?:TO|PAID\s*TO) at i, or 0
MerchantPrefixEnd(s, i) ==
    IF LitAt(s, i, TO) THEN i + 2
    ELSE IF LitAt(s, i, PAID) /\ LitAt(s, RunEnd(s, i + 4, Space), TO)
         THEN RunEnd(s, i + 4, Space) + 2
         ELSE 0

\* (?:\s*ON|\s*\d|$) at r
MerchantStop(s, r) ==
    LET k == RunEnd(s, r, Space)
    IN  LitAt(s, k, ON) \/ IsAt(s, k, Digit) \/ r = Len(s) + 1

\* the pairs <<q, r>>: [:\s]* ends at q, the lazy group ([A-Z\s]+?) is s[q..r-1]
MerchantParses(s, i) ==
    LET p == MerchantPrefixEnd(s, i)
    IN  IF p = 0 THEN {}
        ELSE {qr \in (p..RunEnd(s, p, ColonSpace)) \X (p..(Len(s) + 1)) :
                /\ qr[2] > qr[1]
                /\ qr[2] <= RunEnd(s, qr[1], LetterSpace)
                /\ MerchantStop(s, qr[2])}

\* message.match(/(?:TO|PAID\s*TO)[:\s]*([A-Z\s]+?)(?:\s*ON|\s*\d|$)/i), group 1:
\* the greedy [:\s]* gives back characters, the lazy group takes as few as it can
MerchantMatch(s) ==
    LET at == FirstPos(s, LAMBDA i : MerchantParses(s, i) # {})
    IN  IF IsSome(at)
        THEN LET ps == MerchantParses(s, Get(at))
                 q  == Max({qr[1] : qr \in ps})
                 r  == Min({qr[2] : qr \in {x \in ps : x[1] = q}})
             IN  Some(SubSeq(s, q, r - 1))
        ELSE None

\* MpesaVerifier.extractMessageDetails
extractMessageDetails(message) ==
    LET merchantMatch == MerchantMatch(message)
    IN  [ containsRequiredText |-> TRUE,
          amount        |-> AmountMatch(message),
          transactionId |-> TxnMatch(message),
          timestamp     |-> TimeMatch(message),
          merchantName  |-> IF IsSome(merchantMatch)
                            THEN Some(Trim(Get(merchantMatch))) ELSE None ]

(***************************************************************************)
(* MpesaVerifier.verifyMessage                                              *)
(***************************************************************************)
REQUIRED_MERCHANT_TEXT ==
    <<"V", "E", "D", "A", "C", "O", "M", " ", "4", " ",
      "S", "O", "L", "U", "T", "I", "O", "N", "S">>

MsgInvalidFormat == "Invalid message format"
MsgMerchantFailed == "Invalid payment message - merchant verification failed"
MsgVerified == "Payment message verified successfully"

NoDetails ==
    [ containsRequiredText |-> FALSE, amount |-> None, transactionId |-> None,
      timestamp |-> None, merchantName |-> None ]

\* a check of the merchant's first word only
ContainsRequiredText_FirstWord(message) ==
    Includes(Trim(ToUpperCase(message)), SubSeq(REQUIRED_MERCHANT_TEXT, 1, 7))

\* a check without the case folding
ContainsRequiredText_CaseSensitive(message) ==
    Includes(Trim(message), REQUIRED_MERCHANT_TEXT)

\* const containsRequiredText = normalizedMessage.includes(requiredText)
ContainsRequiredText(message) ==
    Includes(Trim(ToUpperCase(message)), ToUpperCase(REQUIRED_MERCHANT_TEXT))

verifyMessage(message) ==
    IF message = <<>>
    THEN [isValid |-> FALSE, message |-> MsgInvalidFormat, details |-> NoDetails]
    ELSE IF ~ContainsRequiredText(message)
    THEN [isValid |-> FALSE, message |-> MsgMerchantFailed, details |-> NoDetails]
    ELSE [isValid |-> TRUE, message |-> MsgVerified,
          details |-> extractMessageDetails(message)]

(***************************************************************************)
(* Numbers: comparisons of JavaScript, where NaN compares false.           *)
(***************************************************************************)
NumEq(a, b) == a # NaN /\ b # NaN /\ a = b
NumGt(a, b) == a # NaN /\ b # NaN /\ a > b
NumGe(a, b) == a # NaN /\ b # NaN /\ a >= b

\* Math.round of a number in hundredths
MathRound(a) == IF a = NaN THEN NaN ELSE ((a + 50) \div 100) * 100

(***************************************************************************)
(* PlanUpgradeService                                                       *)
(***************************************************************************)
\* parseFloat(plan.price)
PriceOf(plan) == ParseFloat(plan.price)

\* Array.prototype.find: the first element that satisfies P, as an optional
Find(seq, P(_)) ==
    LET hits == {i \in 1..Len(seq) : P(seq[i])}
    IN  IF hits = {} THEN None ELSE Some(seq[Min(hits)])

\* Array.prototype.sort((a, b) => priceA - priceB): stable, ascending
RECURSIVE InsertByPrice(_, _)
InsertByPrice(sorted, plan) ==
    IF sorted = <<>> THEN <<plan>>
    ELSE IF PriceOf(sorted[Len(sorted)]) <= PriceOf(plan)
         THEN Append(sorted, plan)
         ELSE Append(InsertByPrice(SubSeq(sorted, 1, Len(sorted) - 1), plan),
                     sorted[Len(sorted)])

RECURSIVE SortByPrice(_)
SortByPrice(plans) ==
    IF plans = <<>> THEN <<>>
    ELSE InsertByPrice(SortByPrice(SubSeq(plans, 1, Len(plans) - 1)),
                       plans[Len(plans)])

\* the filter without the sort
PaidPlans_Unsorted(availablePlans) ==
    SelectSeq(availablePlans, LAMBDA plan : NumGt(PriceOf(plan), 0))

\* [...availablePlans].filter(plan => parseFloat(plan.price) > 0).sort(...)
PaidPlans(availablePlans) ==
    SortByPrice(SelectSeq(availablePlans, LAMBDA plan : NumGt(PriceOf(plan), 0)))

\* no exact match, and "closest higher" taken as strictly higher
getPlanByAmount_StrictlyHigher(amount, availablePlans) ==
    LET paidPlans  == PaidPlans(availablePlans)
        higherPlan == Find(paidPlans, LAMBDA plan : NumGt(PriceOf(plan), amount))
    IN  IF IsSome(higherPlan) THEN higherPlan
        ELSE IF Len(paidPlans) > 0 THEN Some(paidPlans[Len(paidPlans)])
        ELSE None

\* the free plans are not filtered out
getPlanByAmount_NoFilter(amount, availablePlans) ==
    LET paidPlans  == SortByPrice(availablePlans)
        exactMatch == Find(paidPlans, LAMBDA plan : NumEq(PriceOf(plan), amount))
        higherPlan == Find(paidPlans, LAMBDA plan : NumGe(PriceOf(plan), amount))
    IN  IF IsSome(exactMatch) THEN exactMatch
        ELSE IF IsSome(higherPlan) THEN higherPlan
        ELSE IF Len(paidPlans) > 0 THEN Some(paidPlans[Len(paidPlans)])
        ELSE None

\* an amount above every price falls back to the first paid plan
getPlanByAmount_LowestWhenAbove(amount, availablePlans) ==
    LET paidPlans  == PaidPlans(availablePlans)
        exactMatch == Find(paidPlans, LAMBDA plan : NumEq(PriceOf(plan), amount))
        higherPlan == Find(paidPlans, LAMBDA plan : NumGe(PriceOf(plan), amount))
    IN  IF IsSome(exactMatch) THEN exactMatch
        ELSE IF IsSome(higherPlan) THEN higherPlan
        ELSE IF Len(paidPlans) > 0 THEN Some(paidPlans[1])
        ELSE None

\* PlanUpgradeService.getPlanByAmount
getPlanByAmount(amount, availablePlans) ==
    LET paidPlans  == PaidPlans(availablePlans)
        exactMatch == Find(paidPlans, LAMBDA plan : NumEq(PriceOf(plan), amount))
        higherPlan == Find(paidPlans, LAMBDA plan : NumGe(PriceOf(plan), amount))
    IN  IF IsSome(exactMatch) THEN exactMatch
        ELSE IF IsSome(higherPlan) THEN higherPlan
        ELSE IF Len(paidPlans) > 0 THEN Some(paidPlans[Len(paidPlans)])
        ELSE None

MsgInvalidPlan == "Invalid plan selection"
MsgDowngrade == "Cannot downgrade to a lower plan"
MsgValidated == "Upgrade validated successfully"

\* availablePlans after the call: [...availablePlans] filters and sorts a copy
AvailablePlansAfter(availablePlans) == availablePlans

\* the same tier is rejected: currentPrice >= targetPrice
validateUpgrade_RejectsSame(currentPlanName, targetPlanName, availablePlans) ==
    LET currentPlan == Find(availablePlans, LAMBDA p : p.planName = currentPlanName)
        targetPlan  == Find(availablePlans, LAMBDA p : p.planName = targetPlanName)
    IN  IF ~IsSome(currentPlan) \/ ~IsSome(targetPlan)
        THEN [isValid |-> FALSE, message |-> MsgInvalidPlan]
        ELSE IF NumGe(PriceOf(Get(currentPlan)), PriceOf(Get(targetPlan)))
        THEN [isValid |-> FALSE, message |-> MsgDowngrade]
        ELSE [isValid |-> TRUE, message |-> MsgValidated]

\* the prices are not compared
validateUpgrade_NoPriceCheck(currentPlanName, targetPlanName, availablePlans) ==
    LET currentPlan == Find(availablePlans, LAMBDA p : p.planName = currentPlanName)
        targetPlan  == Find(availablePlans, LAMBDA p : p.planName = targetPlanName)
    IN  IF ~IsSome(currentPlan) \/ ~IsSome(targetPlan)
        THEN [isValid |-> FALSE, message |-> MsgInvalidPlan]
        ELSE [isValid |-> TRUE, message |-> MsgValidated]

\* only the target is looked up; an unknown current plan counts as free
validateUpgrade_TargetOnly(currentPlanName, targetPlanName, availablePlans) ==
    LET currentPlan == Find(availablePlans, LAMBDA p : p.planName = currentPlanName)
        targetPlan  == Find(availablePlans, LAMBDA p : p.planName = targetPlanName)
    IN  IF ~IsSome(targetPlan)
        THEN [isValid |-> FALSE, message |-> MsgInvalidPlan]
        ELSE IF /\ IsSome(currentPlan)
                /\ NumGt(PriceOf(Get(currentPlan)), PriceOf(Get(targetPlan)))
        THEN [isValid |-> FALSE, message |-> MsgDowngrade]
        ELSE [isValid |-> TRUE, message |-> MsgValidated]

\* PlanUpgradeService.validateUpgrade
validateUpgrade(currentPlanName, targetPlanName, availablePlans) ==
    LET currentPlan == Find(availablePlans, LAMBDA p : p.planName = currentPlanName)
        targetPlan  == Find(availablePlans, LAMBDA p : p.planName = targetPlanName)
    IN  IF ~IsSome(currentPlan) \/ ~IsSome(targetPlan)
        THEN [isValid |-> FALSE, message |-> MsgInvalidPlan]
        ELSE IF NumGt(PriceOf(Get(currentPlan)), PriceOf(Get(targetPlan)))
        THEN [isValid |-> FALSE, message |-> MsgDowngrade]
        ELSE [isValid |-> TRUE, message |-> MsgValidated]

(***************************************************************************)
(* MessageProcessor.extractPaymentInfo                                      *)
(***************************************************************************)
Ksh == <<"K", "s", "h">>
SENT == <<"s", "e", "n", "t">>
TILL == <<"T", "i", "l", "l">>
NUMBER == <<"N", "u", "m", "b", "e", "r">>
CONFIRMED == <<"C", "o", "n", "f", "i", "r", "m", "e", "d", ".">>
HAS == <<"h", "a", "s">>
BEEN == <<"b", "e", "e", "n">>
correctTillNumber == <<"3", "5", "6", "6", "1", "8", "8">>

\* const patterns = [...]: the text before Ksh and the words after the amount
patterns ==
    << [lead |-> <<>>,      words |-> <<SENT, TO, TILL, NUMBER>>],
       [lead |-> <<>>,      words |-> <<PAID, TO>>],
       [lead |-> CONFIRMED, words |-> <<SENT, TO>>],
       [lead |-> <<>>,      words |-> <<HAS, BEEN, SENT, TO>>] >>

\* the position of Ksh when the pattern starts at i: Confirmed\.\s*Ksh or Ksh
KshStart(s, i, pattern) ==
    IF pattern.lead = <<>> THEN i
    ELSE IF LitAt(s, i, pattern.lead) THEN RunEnd(s, i + Len(pattern.lead), Space)
    ELSE 0

\* the position after (\d+(?:\.\d{2})?) started at j, which \s+ must follow; or 0
PaidAmountEnd(s, j) ==
    LET e1 == RunEnd(s, j, Digit)
    IN  IF e1 = j THEN 0
        ELSE IF /\ IsAt(s, e1, {"."}) /\ IsAt(s, e1 + 1, Digit)
                /\ IsAt(s, e1 + 2, Digit) /\ IsAt(s, e1 + 3, Space)
             THEN e1 + 3
        ELSE IF IsAt(s, e1, Space) THEN e1
        ELSE 0

\* the position after \s+word\s+word..., started at k; or 0
RECURSIVE WordsEnd(_, _, _)
WordsEnd(s, k, words) ==
    IF k = 0 THEN 0
    ELSE IF words = <<>> THEN k
    ELSE LET w == RunEnd(s, k, Space)
         IN  IF w > k /\ LitAt(s, w, Head(words))
             THEN WordsEnd(s, w + Len(Head(words)), Tail(words))
             ELSE 0

\* the position of group 2, (\d+), of a pattern started at i; or 0
TillStart(s, i, pattern) ==
    LET h == KshStart(s, i, pattern)
        a == IF h > 0 /\ LitAt(s, h, Ksh) THEN PaidAmountEnd(s, h + Len(Ksh)) ELSE 0
        k == WordsEnd(s, a, pattern.words)
        t == IF k = 0 THEN 0 ELSE RunEnd(s, k, Space)
    IN  IF k > 0 /\ t > k /\ IsAt(s, t, Digit) THEN t ELSE 0

\* message.match(pattern): groups 1 and 2 of the leftmost match
PatternMatch(s, pattern) ==
    LET at == FirstPos(s, LAMBDA i : TillStart(s, i, pattern) > 0)
    IN  IF IsSome(at)
        THEN LET h == KshStart(s, Get(at), pattern) + Len(Ksh)
                 t == TillStart(s, Get(at), pattern)
             IN  Some([ amount     |-> SubSeq(s, h, PaidAmountEnd(s, h) - 1),
                        tillNumber |-> SubSeq(s, t, RunEnd(s, t, Digit) - 1) ])
        ELSE None

\* for (const pattern of patterns) { ... }, from pattern n on
RECURSIVE ExtractFrom(_, _)
ExtractFrom(message, n) ==
    IF n > Len(patterns) THEN None
    ELSE LET match == PatternMatch(message, patterns[n])
         IN  IF IsSome(match) /\ Get(match).tillNumber = correctTillNumber
             THEN Some([ amount  |-> MathRound(ParseFloat(Get(match).amount)),
                         isValid |-> TRUE ])
             ELSE ExtractFrom(message, n + 1)

extractPaymentInfo(message) ==
    IF message = <<>> THEN None ELSE ExtractFrom(message, 1)

(***************************************************************************)
(* MpesaVerification.handleVerify: the amount of the message.               *)
(***************************************************************************)
\* message.match(/(?:KSH|KES|Ksh|kes)\s*([\d,]+\.?\d*)/i), group 1
Pattern1(s) ==
    LET at == FirstPos(s, LAMBDA i : WordNumberAt(s, i, {KSH, KES}))
    IN  IF IsSome(at) THEN Some(WordNumberCapture(s, Get(at), {KSH, KES}))
        ELSE None

\* ([\d,]+\.?\d*)\s*(?:KSH|KES|Ksh|kes) at i
NumberWordAt(s, i) ==
    /\ IsAt(s, i, DigitComma)
    /\ LET k == RunEnd(s, NumberEnd(s, i), Space)
       IN  LitAt(s, k, KSH) \/ LitAt(s, k, KES)

\* message.match(/([\d,]+\.?\d*)\s*(?:KSH|KES|Ksh|kes)/i), group 1
Pattern2(s) ==
    LET at == FirstPos(s, LAMBDA i : NumberWordAt(s, i))
    IN  IF IsSome(at) THEN Some(SubSeq(s, Get(at), NumberEnd(s, Get(at)) - 1))
        ELSE None

\* the end of (?:,\d{3})* started at j
RECURSIVE ThousandsEnd(_, _)
ThousandsEnd(s, j) ==
    IF /\ IsAt(s, j, {","}) /\ IsAt(s, j + 1, Digit)
       /\ IsAt(s, j + 2, Digit) /\ IsAt(s, j + 3, Digit)
    THEN ThousandsEnd(s, j + 4)
    ELSE j

\* the end of \d+(?:,\d{3})*(?:\.\d{2})? started at j
GroupedNumberEnd(s, j) ==
    LET e == ThousandsEnd(s, RunEnd(s, j, Digit))
    IN  IF IsAt(s, e, {"."}) /\ IsAt(s, e + 1, Digit) /\ IsAt(s, e + 2, Digit)
        THEN e + 3 ELSE e

\* message.match(/(?:KSH|KES|Ksh|kes)(\d+(?:,\d{3})*(?:\.\d{2})?)/i), group 1
Pattern3(s) ==
    LET at == FirstPos(s, LAMBDA i : (LitAt(s, i, KSH) \/ LitAt(s, i, KES))
                                        /\ IsAt(s, i + 3, Digit))
    IN  IF IsSome(at)
        THEN Some(SubSeq(s, Get(at) + 3, GroupedNumberEnd(s, Get(at) + 3) - 1))
        ELSE None

\* let verifiedAmount = 0; ... parseFloat(patternN[1].replace(/,/g, ''))
VerifiedAmount(message) ==
    LET pattern1 == Pattern1(message)
        pattern2 == Pattern2(message)
        pattern3 == Pattern3(message)
    IN  IF IsSome(pattern1) THEN ParseFloat(RemoveCommas(Get(pattern1)))
        ELSE IF IsSome(pattern2) THEN ParseFloat(RemoveCommas(Get(pattern2)))
        ELSE IF IsSome(pattern3) THEN ParseFloat(RemoveCommas(Get(pattern3)))
        ELSE 0

(***************************************************************************)
(* Inputs: the texts a user can paste, the plan configurations.            *)
(***************************************************************************)
\* the parts messages are made of: the marker, the marker in another letter
\* case, a near miss of it, currency words, amounts, separators, a
\* transaction id, a counterparty prefix and a timestamp
Fragments ==
    { <<"V", "E", "D", "A", "C", "O", "M", " ", "4", " ", "S", "O", "L", "U", "T", "I", "O", "N", "S">>,
      <<"V", "e", "d", "a", "c", "o", "m", " ", "4", " ", "S", "o", "l", "u", "t", "i", "o", "n", "s">>,
      <<"V", "E", "D", "A", "C", "O", "M", " ", "S", "O", "L", "U", "T", "I", "O", "N", "S">>,
      <<"K", "s", "h">>,
      <<"K", "E", "S", " ">>,
      <<"2", "5", "0", ".", "0", "0">>,
      <<"1", ",", "0", "0", "0">>,
      <<"3", "0", "0">>,
      <<" ">>,
      <<",">>,
      <<" ", "T", "X", "N", " ", "I", "D", ":", " ", "Q", "X", "7">>,
      <<" ", "p", "a", "i", "d", " ", "t", "o", " ">>,
      <<" ", "o", "n", " ", "1", "/", "1", "/", "2", "4", " ", "1", "0", ":", "3", "0", " ", "A", "M">> }

\* every text made of at most MaxFrags fragments
Messages ==
    {Concat(fs) : fs \in UNION {[1..n -> Fragments] : n \in 0..MaxFrags}}

Price0 == <<"0">>
Price250 == <<"2", "5", "0">>
Price500 == <<"5", "0", "0">>
Price1000 == <<"1", "0", "0", "0">>
Price250_50 == <<"2", "5", "0", ".", "5", "0">>
PriceTexts == {Price0, Price250, Price500, Price1000, Price250_50}

MaxTiers == 4
PlanNames == <<"Starter", "Silver", "Gold", "Platinum", "Diamond", "Elite">>

\* interface SurveyPlan, the fields this code reads
SurveyPlan(name, price, daily) ==
    [planName |-> name, price |-> price, dailySurvey |-> daily]

\* every list of at most MaxTiers plans with distinct names
TierLists ==
    UNION {{[i \in 1..n |-> SurveyPlan(PlanNames[i], f[i], i)] : f \in [1..n -> PriceTexts]}
           : n \in 0..MaxTiers}

\* payment amounts, in hundredths: 0, 0.01, 250, 250.50, 300, 500, 1000, 5000
Amounts == {0, 1, 25000, 25050, 30000, 50000, 100000, 500000}

\* the messages typed into the verification form
MsgBlank ==
    <<" ">>
MsgNoMarker ==
    <<"V", "E", "D", "A", "C", "O", "M", " ", "S", "O", "L", "U", "T", "I",
      "O", "N", "S", " ", "K", "s", "h", "2", "5", "0", ".", "0", "0">>
MsgMarkerOnly ==
    <<"V", "E", "D", "A", "C", "O", "M", " ", "4", " ", "S", "O", "L", "U",
      "T", "I", "O", "N", "S">>
MsgSilver ==
    <<"K", "s", "h", "2", "5", "0", ".", "0", "0", " ", "p", "a", "i", "d",
      " ", "t", "o", " ", "V", "e", "d", "a", "c", "o", "m", " ", "4", " ",
      "S", "o", "l", "u", "t", "i", "o", "n", "s">>
MsgPlatinum ==
    <<"K", "E", "S", " ", "1", ",", "0", "0", "0", " ", "V", "E", "D", "A",
      "C", "O", "M", " ", "4", " ", "S", "O", "L", "U", "T", "I", "O", "N",
      "S">>
MsgGold ==
    <<"V", "E", "D", "A", "C", "O", "M", " ", "4", " ", "S", "O", "L", "U",
      "T", "I", "O", "N", "S", " ", "K", "s", "h", "3", "0", "0">>
FormMessages ==
    {MsgBlank, MsgNoMarker, MsgMarkerOnly, MsgSilver, MsgPlatinum, MsgGold}

\* the texts pasted anywhere in the application
PastePlatinum ==
    <<"K", "s", "h", "1", "0", "0", "0", " ", "p", "a", "i", "d", " ", "t",
      "o", " ", "3", "5", "6", "6", "1", "8", "8">>
PasteSilver ==
    <<"K", "s", "h", "2", "5", "0", ".", "0", "0", " ", "s", "e", "n", "t",
      " ", "t", "o", " ", "T", "i", "l", "l", " ", "N", "u", "m", "b", "e",
      "r", " ", "3", "5", "6", "6", "1", "8", "8">>
PasteOtherTill ==
    <<"K", "s", "h", "5", "0", "0", " ", "p", "a", "i", "d", " ", "t", "o",
      " ", "1", "2", "3", "4", "5", "6", "7">>
PasteNoPlan ==
    <<"K", "s", "h", "3", "0", "0", " ", "p", "a", "i", "d", " ", "t", "o",
      " ", "3", "5", "6", "6", "1", "8", "8">>
PasteUpper ==
    <<"K", "S", "H", "5", "0", "0", " ", "P", "A", "I", "D", " ", "T", "O",
      " ", "3", "5", "6", "6", "1", "8", "8">>
PasteTexts ==
    {PastePlatinum, PasteSilver, PasteOtherTill, PasteNoPlan, PasteUpper}

\* /plan.json: the four plans, or the free plan alone
StandardPlans ==
    << SurveyPlan("Starter", Price0, 1), SurveyPlan("Silver", Price250, 2),
       SurveyPlan("Gold", Price500, 3), SurveyPlan("Platinum", Price1000, 4) >>
FreeOnlyPlans == << SurveyPlan("Starter", Price0, 1) >>
PlanConfigs == {StandardPlans, FreeOnlyPlans}

\* interface UserProgress
UserProgress(plan) ==
    [ currentPlan |-> plan, surveysCompletedToday |-> 0, totalEarnings |-> 0,
      pendingEarnings |-> 0, completedSurveys |-> <<>>,
      referrals |-> [totalReferrals |-> 0, referralEarnings |-> 0] ]

\* userProgress of /data/survey.json
DefaultProgress == UserProgress("Starter")

\* what localStorage holds for the user when the session starts
InitialStorage == {None, Some(UserProgress("Starter")), Some(UserProgress("Gold"))}

(***************************************************************************)
(* State.                                                                  *)
(***************************************************************************)
VARIABLES
    arg,        \* the argument of the function under evaluation
    ret,        \* its result, None before the call
    planJson,   \* surveyPlans of /plan.json
    authUser,   \* supabase.auth.getUser() returns a user
    storage,    \* localStorage entry surveyData_<userId>: its userProgress
    remotePlan, \* user_profiles.current_plan of the user
    hook,       \* the state of each useSurveyData instance
    form,       \* the state of the MpesaVerification component
    calls,      \* the upgradePlan calls that await the remote update
    lastCall,   \* what the upgradePlan call that finished last did
    pasteLog,   \* what the paste handler that finished last reported
    dashboard   \* the state of the Dashboard and of its SurveyLimitModal

vars == <<arg, ret, planJson, authUser, storage, remotePlan, hook, form,
          calls, lastCall, pasteLog, dashboard>>

session == <<planJson, authUser, storage, remotePlan, hook, form, calls,
             lastCall, pasteLog, dashboard>>

\* no session: the functions are evaluated on their own
NoSession ==
    /\ planJson = <<>>
    /\ authUser = FALSE
    /\ storage = None
    /\ remotePlan = None
    /\ hook = <<>>
    /\ form = <<>>
    /\ calls = <<>>
    /\ lastCall = None
    /\ pasteLog = None
    /\ dashboard = <<>>

(***************************************************************************)
(* MpesaVerifier.verifyMessage on every message.                            *)
(***************************************************************************)
InitVerifier ==
    /\ arg \in Messages
    /\ ret = None
    /\ NoSession

CallVerifyMessage ==
    /\ ret = None
    /\ ret' = Some(verifyMessage(arg))
    /\ UNCHANGED <<arg, session>>

NextVerifier == CallVerifyMessage

SpecVerifier == InitVerifier /\ [][NextVerifier]_vars

(***************************************************************************)
(* PlanUpgradeService.getPlanByAmount on every amount and plan list.        *)
(***************************************************************************)
InitResolver ==
    /\ arg \in [amount : Amounts, plans : TierLists]
    /\ ret = None
    /\ NoSession

CallGetPlanByAmount ==
    /\ ret = None
    /\ ret' = Some(getPlanByAmount(arg.amount, arg.plans))
    /\ arg' = [arg EXCEPT !.plans = AvailablePlansAfter(arg.plans)]
    /\ UNCHANGED session

NextResolver == CallGetPlanByAmount

SpecResolver == InitResolver /\ [][NextResolver]_vars

(***************************************************************************)
(* MessageProcessor.extractPaymentInfo on every payment text.               *)
(***************************************************************************)
\* the parts payment texts are made of: template 2 with the expected till and
\* with another, template 1 with the expected till and with another,
\* templates 3 and 4 with the expected till, a space
PaymentFragments ==
    { <<"K", "s", "h", "5", "0", "0", " ", "p", "a", "i", "d", " ", "t", "o", " ", "3", "5", "6", "6", "1", "8", "8">>,
      <<"K", "s", "h", "5", "0", "0", " ", "p", "a", "i", "d", " ", "t", "o", " ", "1", "2", "3", "4", "5", "6", "7">>,
      <<"K", "s", "h", "2", "5", "0", ".", "0", "0", " ", "s", "e", "n", "t", " ", "t", "o", " ", "T", "i", "l", "l", " ", "N", "u", "m", "b", "e", "r", " ", "3", "5", "6", "6", "1", "8", "8">>,
      <<"K", "s", "h", "3", "0", "0", " ", "s", "e", "n", "t", " ", "t", "o", " ", "T", "i", "l", "l", " ", "N", "u", "m", "b", "e", "r", " ", "7", "6", "5", "4", "3", "2", "1">>,
      <<"C", "o", "n", "f", "i", "r", "m", "e", "d", ".", " ", "K", "s", "h", "1", "0", "0", "0", " ", "s", "e", "n", "t", " ", "t", "o", " ", "3", "5", "6", "6", "1", "8", "8">>,
      <<"K", "s", "h", "2", "5", "0", " ", "h", "a", "s", " ", "b", "e", "e", "n", " ", "s", "e", "n", "t", " ", "t", "o", " ", "3", "5", "6", "6", "1", "8", "8">>,
      <<" ">> }

\* every text made of at most MaxFrags of these parts
PaymentTexts ==
    {Concat(fs) : fs \in UNION {[1..n -> PaymentFragments] : n \in 0..MaxFrags}}

CallExtractPaymentInfo ==
    /\ ret = None
    /\ ret' = Some(extractPaymentInfo(arg))
    /\ UNCHANGED <<arg, session>>

InitExtractor ==
    /\ arg \in PaymentTexts
    /\ ret = None
    /\ NoSession

NextExtractor == CallExtractPaymentInfo

SpecExtractor == InitExtractor /\ [][NextExtractor]_vars

(***************************************************************************)
(* A confirmation of 250.00 to the till: verifyMessage, then getPlanByAmount *)
(* on the amount handleVerify reads.                                        *)
(***************************************************************************)
\* "Confirmed. Ksh250.00 sent to Till Number 3566188 on 1/1/24 ..." with the
\* marker after it, before it, in another letter case
ScenarioMessages ==
    { <<"C", "o", "n", "f", "i", "r", "m", "e", "d", ".", " ", "K", "s",
        "h", "2", "5", "0", ".", "0", "0", " ", "s", "e", "n", "t", " ",
        "t", "o", " ", "T", "i", "l", "l", " ", "N", "u", "m", "b", "e",
        "r", " ", "3", "5", "6", "6", "1", "8", "8", " ", "o", "n", " ",
        "1", "/", "1", "/", "2", "4", " ", "a", "t", " ", "1", "0", ":",
        "3", "0", " ", "A", "M", " ", "t", "o", " ", "V", "E", "D", "A",
        "C", "O", "M", " ", "4", " ", "S", "O", "L", "U", "T", "I", "O",
        "N", "S">>,
      <<"C", "o", "n", "f", "i", "r", "m", "e", "d", ".", " ", "K", "s",
        "h", "2", "5", "0", ".", "0", "0", " ", "s", "e", "n", "t", " ",
        "t", "o", " ", "T", "i", "l", "l", " ", "N", "u", "m", "b", "e",
        "r", " ", "3", "5", "6", "6", "1", "8", "8", " ", "o", "n", " ",
        "1", "/", "1", "/", "2", "4", " ", "V", "e", "d", "a", "c", "o",
        "m", " ", "4", " ", "S", "o", "l", "u", "t", "i", "o", "n", "s",
        ".", " ", "T", "X", "N", " ", "I", "D", ":", " ", "Q", "X", "7">>,
      <<"V", "E", "D", "A", "C", "O", "M", " ", "4", " ", "S", "O", "L",
        "U", "T", "I", "O", "N", "S", " ", "C", "o", "n", "f", "i", "r",
        "m", "e", "d", ".", " ", "K", "s", "h", "2", "5", "0", ".", "0",
        "0", " ", "s", "e", "n", "t", " ", "t", "o", " ", "T", "i", "l",
        "l", " ", "N", "u", "m", "b", "e", "r", " ", "3", "5", "6", "6",
        "1", "8", "8", " ", "o", "n", " ", "1", "/", "1", "/", "2", "4",
        " ", ".", ".", ".">>,
      <<"C", "o", "n", "f", "i", "r", "m", "e", "d", ".", " ", "K", "s",
        "h", "2", "5", "0", ".", "0", "0", " ", "s", "e", "n", "t", " ",
        "t", "o", " ", "T", "i", "l", "l", " ", "N", "u", "m", "b", "e",
        "r", " ", "3", "5", "6", "6", "1", "8", "8", " ", "o", "n", " ",
        "1", "/", "1", "/", "2", "4", " ", ".", ".", ".", " ", "N", "e",
        "w", " ", "b", "a", "l", "a", "n", "c", "e", " ", "i", "s", " ",
        "K", "s", "h", "1", ",", "0", "0", "0", ".", "0", "0", ".", " ",
        "v", "e", "d", "a", "c", "o", "m", " ", "4", " ", "s", "o", "l",
        "u", "t", "i", "o", "n", "s">> }

ScenarioTable ==
    [ m \in ScenarioMessages |->
        [verified |-> verifyMessage(m), verifiedAmount |-> VerifiedAmount(m)] ]

\* const result = MpesaVerifier.verifyMessage(message); ...
\* PlanUpgradeService.getPlanByAmount(verifiedAmount, planData.surveyPlans)
VerifyThenResolve(read, surveyPlans) ==
    [ verified   |-> read.verified,
      targetPlan |-> getPlanByAmount(read.verifiedAmount, surveyPlans) ]

CallVerifyThenResolve ==
    /\ ret = None
    /\ ret' = Some(VerifyThenResolve(ScenarioTable[arg.message], arg.plans))
    /\ UNCHANGED <<arg, session>>

InitScenario ==
    /\ arg \in [message : ScenarioMessages, plans : TierLists]
    /\ ret = None
    /\ NoSession

NextScenario == CallVerifyThenResolve

SpecScenario == InitScenario /\ [][NextScenario]_vars

(***************************************************************************)
(* PlanUpgradeService.getPlanByAmount on two amounts and the same list.     *)
(***************************************************************************)
\* 0.01, 250, 300, 1000, 5000
PairAmounts == {1, 25000, 30000, 100000, 500000}

CallGetPlanByAmountTwice ==
    /\ ret = None
    /\ ret' = Some(<<getPlanByAmount(arg.amount1, arg.plans),
                     getPlanByAmount(arg.amount2, arg.plans)>>)
    /\ UNCHANGED <<arg, session>>

InitResolverPair ==
    /\ arg \in {a \in [amount1 : PairAmounts, amount2 : PairAmounts, plans : TierLists] :
                    a.amount1 < a.amount2}
    /\ ret = None
    /\ NoSession

NextResolverPair == CallGetPlanByAmountTwice

SpecResolverPair == InitResolverPair /\ [][NextResolverPair]_vars

(***************************************************************************)
(* PlanUpgradeService.validateUpgrade on every pair of names and plan list. *)
(***************************************************************************)
\* three names a list can hold and one that no list holds
ValidatorNames == {"Starter", "Silver", "Gold", "Elite"}

CallValidateUpgrade ==
    /\ ret = None
    /\ ret' = Some(validateUpgrade(arg.currentPlanName, arg.targetPlanName,
                                   arg.plans))
    /\ UNCHANGED <<arg, session>>

InitValidator ==
    /\ arg \in [currentPlanName : ValidatorNames, targetPlanName : ValidatorNames,
                 plans : TierLists]
    /\ ret = None
    /\ NoSession

NextValidator == CallValidateUpgrade

SpecValidator == InitValidator /\ [][NextValidator]_vars

(***************************************************************************)
(* The session: three mounted useSurveyData instances (the verification    *)
(* form's, the paste handler's, the dashboard's), the remote profile, the   *)
(* local cache, the verification form and the paste handler.                *)
(***************************************************************************)
Hooks == {"form", "paste", "dash"}

MaxPending == 1

\* useState initial values; pc is the position of initializeData
HookInit ==
    [ pc |-> "mount", planData |-> FALSE, surveyData |-> None, userId |-> FALSE,
      loading |-> TRUE, verifiedPlan |-> None ]

\* no submission yet: what handleVerify has shown and called
NoSubmission ==
    [ toasts |-> {}, callbacks |-> <<>>, invoked |-> FALSE, upgrade |-> "none" ]

\* handleVerify is not running: no render is captured
NoClosure == [planData |-> FALSE, surveyData |-> FALSE, userId |-> FALSE]

FormInit ==
    [ message |-> <<>>, isVerifying |-> FALSE, isUpgrading |-> FALSE,
      verificationResult |-> None, pc |-> "idle",
      closure |-> NoClosure, sub |-> NoSubmission ]

\* Dashboard: useState(null), useState(false); SurveyLimitModal:
\* useState(false), useState(0), and the timers its effect has started
DashboardInit ==
    [ currentSurvey |-> None, showLimitModal |-> FALSE, toast |-> None,
      isVisible |-> FALSE, progress |-> 0, timers |-> <<>>, deps |-> None ]

Init ==
    /\ arg = None
    /\ ret = None
    /\ planJson \in PlanConfigs
    /\ authUser \in BOOLEAN
    /\ storage \in InitialStorage
    /\ remotePlan = None
    /\ hook = [h \in Hooks |-> HookInit]
    /\ form = FormInit
    /\ calls = <<>>
    /\ lastCall = None
    /\ pasteLog = None
    /\ dashboard = DashboardInit

(***************************************************************************)
(* useSurveyData: initializeData                                            *)
(***************************************************************************)
\* fetchSurveyData: the cached userProgress replaces the one of survey.json
fetchSurveyData(ok) ==
    IF ~ok THEN None
    ELSE IF IsSome(storage) THEN storage
    ELSE Some(DefaultProgress)

\* initializeData to its end: planOk and surveyOk are the outcomes of the
\* fetches of /plan.json and /data/survey.json.  Without a user the demo
\* progress is used (plan?.currentPlan?.default || "Starter"), and a failed
\* fetch of survey.json rejects initializeData before setLoading(false).
initializeData(planOk, surveyOk) ==
    IF authUser
    THEN [ pc |-> "ready", planData |-> planOk, userId |-> TRUE,
           surveyData |-> fetchSurveyData(surveyOk), loading |-> FALSE,
           verifiedPlan |-> None ]
    ELSE IF surveyOk
    THEN [ pc |-> "ready", planData |-> planOk, userId |-> FALSE,
           surveyData |-> Some(UserProgress("Starter")), loading |-> FALSE,
           verifiedPlan |-> None ]
    ELSE [ pc |-> "rejected", planData |-> planOk, userId |-> FALSE,
           surveyData |-> None, loading |-> TRUE, verifiedPlan |-> None ]

\* useEffect(() => { initializeData(); }, []) of instance h
InitializeData(h) ==
    /\ hook[h].pc = "mount"
    /\ \E planOk \in BOOLEAN, surveyOk \in BOOLEAN :
          hook' = [hook EXCEPT ![h] = initializeData(planOk, surveyOk)]
    /\ lastCall' = None
    /\ pasteLog' = None
    /\ UNCHANGED <<dashboard, arg, ret, planJson, authUser, storage, remotePlan, form, calls>>

(***************************************************************************)
(* useSurveyData: upgradePlan and the plan-upgraded event                   *)
(***************************************************************************)
\* guards without the lookup of the plan
upgradePlanProceeds_NoLookup(closure, newPlanName) ==
    closure.planData /\ closure.surveyData /\ closure.userId

\* if (!planData || !surveyData || !userId) return false; the plan is looked
\* up by name: the call goes on to the remote update
upgradePlanProceeds(closure, newPlanName) ==
    /\ closure.planData /\ closure.surveyData /\ closure.userId
    /\ IsSome(Find(planJson, LAMBDA plan : plan.planName = newPlanName))

\* what the render that created the callbacks saw of instance h
ClosureOf(h) ==
    [ planData   |-> hook[h].planData,
      surveyData |-> IsSome(hook[h].surveyData),
      userId     |-> hook[h].userId ]

\* a result that ignores the error of the remote update
upgradeReturns_IgnoresError(error) == TRUE

\* a result that is false whatever the remote update answered
upgradeReturns_AlwaysFalse(error) == FALSE

\* if (error) return false; ... return true
upgradeReturns(error) == ~error

\* an updater that builds a new userProgress instead of spreading the old one
setCurrentPlan_NoSpread(prev, newPlanName) ==
    IF IsSome(prev) THEN Some(UserProgress(newPlanName)) ELSE None

\* setSurveyData(prev => ({...prev, userProgress: {...prev.userProgress,
\* currentPlan: newPlanName}}))
setCurrentPlan(prev, newPlanName) ==
    IF IsSome(prev) THEN Some([Get(prev) EXCEPT !.currentPlan = newPlanName])
    ELSE None

\* no listener is registered for plan-upgraded
handlePlanUpdate_NoListener(hk, newPlan) == hk

\* handlePlanUpdate of every instance: if (newPlan && planData) ...
handlePlanUpdate(hk, newPlan) ==
    [h \in Hooks |->
        IF hk[h].planData
        THEN [hk[h] EXCEPT !.surveyData = setCurrentPlan(hk[h].surveyData, newPlan)]
        ELSE hk[h]]

\* a call that returned false before the remote update
RefusedCall(by, h, target) ==
    [ by |-> by, hook |-> h, target |-> target, result |-> FALSE,
      accepted |-> FALSE, event |-> None ]

\* the remote update of call i answers: the rest of upgradePlan, and of the
\* caller that awaits it
FinishUpgrade(i) ==
    /\ i \in DOMAIN calls
    /\ \E error \in BOOLEAN :
        LET call    == calls[i]
            h       == call.hook
            result  == upgradeReturns(error)
            updated == setCurrentPlan(hook[h].surveyData, call.target)
            hk1     == [hook EXCEPT ![h].surveyData = updated,
                                    ![h].verifiedPlan = Some(call.target)]
            hk2     == IF error THEN hook ELSE handlePlanUpdate(hk1, call.target)
        IN  /\ hook' = hk2
            /\ remotePlan' = IF error THEN remotePlan ELSE Some(call.target)
            /\ storage' = IF ~error /\ IsSome(updated) THEN updated ELSE storage
            /\ lastCall' = Some(
                  [ by |-> call.by, hook |-> h, target |-> call.target,
                    result |-> result, accepted |-> ~error,
                    event |-> IF error THEN None ELSE Some(call.target) ])
            /\ form' = IF call.by = "form"
                       THEN [form EXCEPT !.sub.upgrade =
                                IF result THEN "ok" ELSE "rejected"]
                       ELSE form
            /\ pasteLog' = IF call.by = "paste"
                           THEN Some([ toast |-> IF result THEN "Plan Upgraded!"
                                                 ELSE "Upgrade Failed",
                                       upgrade |-> IF result THEN "ok" ELSE "rejected",
                                       accepted |-> ~error ])
                           ELSE None
    /\ calls' = SubSeq(calls, 1, i - 1) \o SubSeq(calls, i + 1, Len(calls))
    /\ UNCHANGED <<dashboard, arg, ret, planJson, authUser>>


(***************************************************************************)
(* useSurveyData: completeSurvey                                            *)
(***************************************************************************)
MaxCompleted == 3

\* surveys of /data/survey.json: the fields completeSurvey reads
surveys == << [id |-> "s1", reward |-> 10, questions |-> 3] >>

\* an updater that credits totalEarnings alone
setSurveyCompleted_NoPending(prev, survey) ==
    IF IsSome(prev)
    THEN Some([Get(prev) EXCEPT
                 !.surveysCompletedToday = @ + 1,
                 !.totalEarnings = @ + survey.reward,
                 !.completedSurveys = Append(@, survey.id)])
    ELSE None

\* setSurveyData(prev => ({...prev, userProgress: {...prev.userProgress,
\* surveysCompletedToday: ... + 1, totalEarnings: ... + survey.reward, ...}}))
setSurveyCompleted(prev, survey) ==
    IF IsSome(prev)
    THEN Some([Get(prev) EXCEPT
                 !.surveysCompletedToday = @ + 1,
                 !.totalEarnings = @ + survey.reward,
                 !.pendingEarnings = @ + survey.reward,
                 !.completedSurveys = Append(@, survey.id)])
    ELSE None

\* completeSurvey(surveyId) of instance h; the updater writes the cache
CompleteSurvey(h) ==
    /\ hook[h].pc = "ready"
    /\ IsSome(hook[h].surveyData) /\ hook[h].userId
    /\ Len(Get(hook[h].surveyData).completedSurveys) < MaxCompleted
    /\ \E i \in DOMAIN surveys :
          LET updated == setSurveyCompleted(hook[h].surveyData, surveys[i])
          IN  /\ hook' = [hook EXCEPT ![h].surveyData = updated]
              /\ storage' = updated
    /\ lastCall' = None
    /\ pasteLog' = None
    /\ UNCHANGED <<dashboard, arg, ret, planJson, authUser, remotePlan, form, calls>>

\* the ids completeSurvey is called with: a survey of the list and an unknown
SurveyIds == {"s1", "s9"}

\* completeSurvey(surveyId) of instance h, whatever it returns:
\* if (!surveyData || !userId) return false; if (!survey) return false
CallCompleteSurvey(h) ==
    /\ hook[h].pc = "ready"
    /\ \E surveyId \in SurveyIds :
          LET survey   == Find(surveys, LAMBDA sv : sv.id = surveyId)
              proceeds == /\ IsSome(hook[h].surveyData) /\ hook[h].userId
                          /\ IsSome(survey)
              updated  == setSurveyCompleted(hook[h].surveyData, Get(survey))
          IN  /\ proceeds =>
                    Len(Get(hook[h].surveyData).completedSurveys) < MaxCompleted
              /\ hook' = IF proceeds THEN [hook EXCEPT ![h].surveyData = updated]
                         ELSE hook
              /\ storage' = IF proceeds THEN updated ELSE storage
              /\ lastCall' = Some(
                    [ by |-> "completeSurvey", hook |-> h, target |-> surveyId,
                      result |-> proceeds, accepted |-> FALSE, event |-> None ])
    /\ pasteLog' = None
    /\ UNCHANGED <<dashboard, arg, ret, planJson, authUser, remotePlan, form, calls>>

(***************************************************************************)
(* MpesaVerification                                                        *)
(***************************************************************************)
\* !message.trim(), for the messages of the form
IsBlank == [m \in FormMessages \cup {<<>>} |-> Trim(m) = <<>>]

ResultIsValid ==
    IsSome(form.verificationResult) /\ Get(form.verificationResult).isValid

\* <Textarea disabled={isVerifying || verificationResult?.isValid}>
InputDisabled == form.isVerifying \/ ResultIsValid

\* <Button disabled={isVerifying || isUpgrading || !message.trim() ||
\* verificationResult?.isValid}>
ButtonDisabled ==
    form.isVerifying \/ form.isUpgrading \/ IsBlank[form.message] \/ ResultIsValid

\* onChange={(e) => setMessage(e.target.value)}
SetMessage ==
    /\ ~InputDisabled
    /\ \E m \in FormMessages :
          /\ m # form.message
          /\ form' = [form EXCEPT !.message = m]
    /\ lastCall' = None
    /\ pasteLog' = None
    /\ UNCHANGED <<dashboard, arg, ret, planJson, authUser, storage, remotePlan, hook, calls>>

\* handleVerify up to the simulated delay: setIsVerifying(true); await ...
Submit ==
    /\ ~ButtonDisabled
    /\ ~IsBlank[form.message]
    /\ form' = [form EXCEPT !.isVerifying = TRUE,
                            !.pc = "delay",
                            !.closure = ClosureOf("form"),
                            !.sub = NoSubmission]
    /\ lastCall' = None
    /\ pasteLog' = None
    /\ UNCHANGED <<dashboard, arg, ret, planJson, authUser, storage, remotePlan, hook, calls>>

\* a branch that looks for the amount before it looks at result.isValid
handleVerifyBranch_AmountFirst(message, planLoaded, surveyPlans) ==
    IF ~(NumGt(VerifiedAmount(message), 0) /\ planLoaded) THEN "invalidPayment"
    ELSE IF ~IsSome(getPlanByAmount(VerifiedAmount(message), surveyPlans)) THEN "noPlan"
    ELSE "upgrade"

\* the branch of handleVerify: if (result.isValid) { if (verifiedAmount > 0 &&
\* planData && planData.surveyPlans) { if (targetPlan) ...
handleVerifyBranch(message, planLoaded, surveyPlans) ==
    IF ~verifyMessage(message).isValid THEN "merchant"
    ELSE IF ~(NumGt(VerifiedAmount(message), 0) /\ planLoaded) THEN "invalidPayment"
    ELSE IF ~IsSome(getPlanByAmount(VerifiedAmount(message), surveyPlans)) THEN "noPlan"
    ELSE "upgrade"

\* handleVerify's reading of each message of the form, under each plan
\* configuration and with planData loaded or not
HandleVerifyTable ==
    [ surveyPlans \in PlanConfigs |-> [ m \in FormMessages |->
        [ isValid    |-> verifyMessage(m).isValid,
          branch     |-> [planLoaded \in BOOLEAN |->
                            handleVerifyBranch(m, planLoaded, surveyPlans)],
          targetPlan |-> getPlanByAmount(VerifiedAmount(m), surveyPlans) ] ] ]

\* the toast of a branch that does not upgrade
FailureToast(branch) ==
    CASE branch = "merchant"       -> "Verification Failed"
      [] branch = "invalidPayment" -> "Invalid Payment"
      [] branch = "noPlan"         -> "No Plan Found"

\* const upgradeSuccess = upgradePlan(targetPlan.planName): the promise, not
\* its value, so that if (upgradeSuccess) always takes the first branch
upgradeSuccessIsTruthy == TRUE

\* the state reset placed at the end of the try block
afterHandleVerify_NoFinally(f, threw) ==
    IF threw THEN [f EXCEPT !.pc = "idle", !.closure = NoClosure]
    ELSE [f EXCEPT !.isVerifying = FALSE, !.isUpgrading = FALSE, !.pc = "idle",
                   !.closure = NoClosure]

\* finally { setIsVerifying(false); setIsUpgrading(false); }
afterHandleVerify(f, threw) ==
    [f EXCEPT !.isVerifying = FALSE, !.isUpgrading = FALSE, !.pc = "idle",
              !.closure = NoClosure]

\* handleVerify after the delay, to its end, with what it reads of the
\* message; throwAt is the call of onVerificationComplete that throws (0: none)
handleVerify(read, throwAt) ==
        LET result   == [isValid |-> read.isValid]
            branch   == read.branch[form.closure.planData]
            upgrades == branch = "upgrade"
            target   == Get(read.targetPlan).planName
            proceeds == upgrades /\ upgradePlanProceeds(form.closure, target)
            success  == upgrades /\ upgradeSuccessIsTruthy
            first    == IF success THEN <<[verified |-> TRUE, upgraded |-> TRUE]>>
                        ELSE <<>>
            final    == <<[verified |-> result.isValid, upgraded |-> FALSE]>>
            all      == first \o final
            threw    == throwAt \in 1..Len(all)
            made     == IF threw THEN SubSeq(all, 1, throwAt) ELSE all
            toasts   == (IF ~upgrades THEN {FailureToast(branch)}
                         ELSE IF success THEN {"Plan Upgraded Successfully!"}
                         ELSE {"Upgrade Failed"})
                        \cup (IF threw THEN {"Verification Error"} ELSE {})
            \* setVerificationResult({...result, upgradedPlan}) at the first
            \* call, setVerificationResult(result) before the final one
            shown    == IF success /\ throwAt = 1
                        THEN [isValid |-> result.isValid, upgraded |-> TRUE]
                        ELSE [isValid |-> result.isValid, upgraded |-> FALSE]
            f1       == [form EXCEPT
                           !.verificationResult = Some(shown),
                           !.isUpgrading = upgrades,
                           !.sub = [ toasts    |-> toasts,
                                     callbacks |-> made,
                                     invoked   |-> upgrades,
                                     upgrade   |-> IF ~upgrades THEN "none"
                                                   ELSE IF proceeds THEN "pending"
                                                   ELSE "refused" ]]
        IN  /\ form' = afterHandleVerify(f1, threw)
            /\ calls' = IF proceeds
                        THEN Append(calls, [by |-> "form", hook |-> "form",
                                            target |-> target])
                        ELSE calls
            /\ lastCall' = IF upgrades /\ ~proceeds
                           THEN Some(RefusedCall("form", "form", target))
                           ELSE None

\* the continuation of handleVerify when the timer of the delay fires
FinishVerify ==
    /\ form.pc = "delay"
    /\ \E throwAt \in 0..2 :
          handleVerify(HandleVerifyTable[planJson][form.message], throwAt)
    /\ pasteLog' = None
    /\ UNCHANGED <<dashboard, arg, ret, planJson, authUser, storage, remotePlan, hook>>

(***************************************************************************)
(* AutoUpgradeHandler.handlePaste                                           *)
(***************************************************************************)
MPESA == <<"M", "-", "P", "e", "s", "a">>

\* text.includes('M-Pesa') || text.includes('Ksh') || text.includes('Till')
LooksLikeMpesa(text) ==
    Includes(text, MPESA) \/ Includes(text, Ksh) \/ Includes(text, TILL)

\* planData?.surveyPlans.find(plan => parseInt(plan.price) === amount)
PlanForAmount(planLoaded, amount, surveyPlans) ==
    IF planLoaded
    THEN Find(surveyPlans, LAMBDA plan : NumEq(ParseInt(plan.price), amount))
    ELSE None

\* handlePaste's reading of each pasted text, under each plan configuration
\* and with planData loaded or not
PasteReading(paymentInfo, surveyPlans) ==
    [ paymentInfo |-> paymentInfo,
      targetPlan  |-> [planLoaded \in BOOLEAN |->
            IF IsSome(paymentInfo) /\ Get(paymentInfo).isValid
            THEN PlanForAmount(planLoaded, Get(paymentInfo).amount, surveyPlans)
            ELSE None] ]

HandlePasteTable ==
    [ surveyPlans \in PlanConfigs |-> [ text \in PasteTexts |->
        PasteReading(IF LooksLikeMpesa(text) THEN extractPaymentInfo(text)
                     ELSE None,
                     surveyPlans) ] ]

PendingBy(by) == Len(SelectSeq(calls, LAMBDA c : c.by = by))

\* handlePaste up to await upgradePlan(...), or to its end, with what it reads
\* of the pasted text
handlePaste(read) ==
        LET paymentInfo == read.paymentInfo
            targetPlan  == read.targetPlan[hook["paste"].planData]
            target      == Get(targetPlan).planName
            proceeds    == IsSome(targetPlan)
                           /\ upgradePlanProceeds(ClosureOf("paste"), target)
        IN  /\ calls' = IF proceeds
                        THEN Append(calls, [by |-> "paste", hook |-> "paste",
                                            target |-> target])
                        ELSE calls
            /\ lastCall' = IF IsSome(targetPlan) /\ ~proceeds
                           THEN Some(RefusedCall("paste", "paste", target))
                           ELSE None
            /\ pasteLog' =
                  IF ~IsSome(paymentInfo) THEN None
                  ELSE IF ~IsSome(targetPlan)
                  THEN Some([toast |-> "No Matching Plan", upgrade |-> "none",
                             accepted |-> FALSE])
                  ELSE IF proceeds
                  THEN Some([toast |-> "Processing Payment...", upgrade |-> "pending",
                             accepted |-> FALSE])
                  ELSE Some([toast |-> "Upgrade Failed", upgrade |-> "refused",
                             accepted |-> FALSE])

\* document.addEventListener('paste', handlePaste)
Paste ==
    /\ PendingBy("paste") < MaxPending
    /\ \E text \in PasteTexts : handlePaste(HandlePasteTable[planJson][text])
    /\ UNCHANGED <<dashboard, arg, ret, planJson, authUser, storage, remotePlan, hook, form>>

(***************************************************************************)
(* useSurveyData: verifyPaymentAndUpgradePlan                               *)
(***************************************************************************)
\* the amounts it is called with, in hundredths: 250, 300, 1000
PaymentAmounts == {25000, 30000, 100000}

\* verifyPaymentAndUpgradePlan(paymentAmount, transactionId) of instance h and
\* the answer of the remote update, in one step:
\* if (!planData || !userId) return false; if (!targetPlan) return false;
\* if (error) return false; the updater, setVerifiedPlan, the event
VerifyPaymentAndUpgradePlan(h) ==
    /\ hook[h].pc = "ready"
    /\ \E paymentAmount \in PaymentAmounts, error \in BOOLEAN :
          LET targetPlan == PlanForAmount(hook[h].planData, paymentAmount, planJson)
              reaches    == hook[h].planData /\ hook[h].userId /\ IsSome(targetPlan)
              accepted   == reaches /\ ~error
              target     == IF IsSome(targetPlan) THEN Get(targetPlan).planName
                            ELSE "none"
              updated    == setCurrentPlan(hook[h].surveyData, target)
              hk1        == [hook EXCEPT ![h].surveyData = updated,
                                         ![h].verifiedPlan = Some(target)]
          IN  /\ hook' = IF accepted THEN handlePlanUpdate(hk1, target) ELSE hook
              /\ remotePlan' = IF accepted THEN Some(target) ELSE remotePlan
              /\ storage' = IF accepted /\ IsSome(updated) THEN updated ELSE storage
              /\ lastCall' = Some(
                    [ by |-> "verifyPaymentAndUpgradePlan", hook |-> h,
                      target |-> target, result |-> accepted,
                      accepted |-> accepted,
                      event |-> IF accepted THEN Some(target) ELSE None ])
    /\ pasteLog' = None
    /\ UNCHANGED <<dashboard, arg, ret, planJson, authUser, form, calls>>

\* the names upgradePlan is called with by a component of its own: a tier of
\* the four plans and a name no configuration holds
UpgradeNames == {"Silver", "Diamond"}

\* upgradePlan(newPlanName) of instance h up to the remote update, or to its
\* return at the guards
CallUpgradePlan(h) ==
    /\ hook[h].pc = "ready"
    /\ PendingBy("upgradePlan") < MaxPending
    /\ \E newPlanName \in UpgradeNames :
          LET proceeds == upgradePlanProceeds(ClosureOf(h), newPlanName)
          IN  /\ calls' = IF proceeds
                          THEN Append(calls, [by |-> "upgradePlan", hook |-> h,
                                              target |-> newPlanName])
                          ELSE calls
              /\ lastCall' = IF proceeds THEN None
                             ELSE Some(RefusedCall("upgradePlan", h, newPlanName))
    /\ pasteLog' = None
    /\ UNCHANGED <<dashboard, arg, ret, planJson, authUser, storage, remotePlan,
                   hook, form>>

(***************************************************************************)
(* Dashboard                                                                *)
(***************************************************************************)
\* a lookup that falls back to the first plan of the configuration
getCurrentPlan_FirstPlan(h) ==
    IF ~hook[h].planData \/ ~IsSome(hook[h].surveyData) THEN None
    ELSE LET found == Find(planJson, LAMBDA plan :
                         plan.planName = Get(hook[h].surveyData).currentPlan)
         IN  IF IsSome(found) \/ planJson = <<>> THEN found ELSE Some(planJson[1])

\* getCurrentPlan of instance h: if (!planData || !surveyData) return null;
\* planData.surveyPlans.find(plan => plan.planName === currentPlan)
getCurrentPlan(h) ==
    IF ~hook[h].planData \/ ~IsSome(hook[h].surveyData) THEN None
    ELSE Find(planJson, LAMBDA plan :
                 plan.planName = Get(hook[h].surveyData).currentPlan)

\* the Dashboard is past its loading and error screens
DashboardRendered ==
    ~hook["dash"].loading /\ hook["dash"].planData /\ IsSome(hook["dash"].surveyData)

\* currentPlan?.planName || "No Plan"
ShownPlanName ==
    IF IsSome(getCurrentPlan("dash")) THEN Get(getCurrentPlan("dash")).planName
    ELSE "No Plan"

\* currentPlan?.dailySurvey || 0
DailyLimit ==
    IF IsSome(getCurrentPlan("dash")) THEN Get(getCurrentPlan("dash")).dailySurvey
    ELSE 0

\* userProgress.surveysCompletedToday of the render
CompletedToday == Get(hook["dash"].surveyData).surveysCompletedToday

\* handleStartSurvey(surveyId): the state of the Dashboard after it
handleStartSurvey(surveyId) ==
    LET currentPlan == getCurrentPlan("dash")
        survey      == Find(surveys, LAMBDA sv : sv.id = surveyId)
    IN  IF ~IsSome(currentPlan)
        THEN [dashboard EXCEPT !.toast = Some("No Plan Selected")]
        ELSE IF CompletedToday >= Get(currentPlan).dailySurvey
        THEN [dashboard EXCEPT !.showLimitModal = TRUE, !.toast = None]
        ELSE IF ~IsSome(survey)
        THEN [dashboard EXCEPT !.toast = Some("Survey Not Available")]
        ELSE IF Get(survey).questions = 0
        THEN [dashboard EXCEPT !.toast = Some("Survey Error")]
        ELSE [dashboard EXCEPT !.currentSurvey = Some(surveyId), !.toast = None]

\* the Start Survey button of a listed survey: onClick={() => { if
\* (surveysCompletedToday >= (currentPlan?.dailySurvey || 0))
\* setShowLimitModal(true); else handleStartSurvey(survey.id); }}
StartSurveyClick ==
    /\ DashboardRendered
    /\ dashboard.currentSurvey = None
    /\ \E i \in DOMAIN surveys :
          dashboard' = IF CompletedToday >= DailyLimit
                       THEN [dashboard EXCEPT !.showLimitModal = TRUE,
                                              !.toast = None]
                       ELSE handleStartSurvey(surveys[i].id)
    /\ lastCall' = None
    /\ pasteLog' = None
    /\ UNCHANGED <<arg, ret, planJson, authUser, storage, remotePlan, hook, form,
                   calls>>

\* handleSurveyComplete(surveyId), called by the survey in progress:
\* completeSurvey(surveyId); setCurrentSurvey(null); toast(...)
HandleSurveyComplete ==
    /\ DashboardRendered
    /\ IsSome(dashboard.currentSurvey)
    /\ LET survey   == Find(surveys, LAMBDA sv : sv.id = Get(dashboard.currentSurvey))
           proceeds == hook["dash"].userId /\ IsSome(survey)
           updated  == setSurveyCompleted(hook["dash"].surveyData, Get(survey))
       IN  /\ proceeds =>
                 Len(Get(hook["dash"].surveyData).completedSurveys) < MaxCompleted
           /\ hook' = IF proceeds THEN [hook EXCEPT !["dash"].surveyData = updated]
                      ELSE hook
           /\ storage' = IF proceeds THEN updated ELSE storage
           /\ lastCall' = Some(
                 [ by |-> "completeSurvey", hook |-> "dash",
                   target |-> Get(dashboard.currentSurvey), result |-> proceeds,
                   accepted |-> FALSE, event |-> None ])
    /\ dashboard' = [dashboard EXCEPT !.currentSurvey = None,
                                      !.toast = Some("Survey Completed!")]
    /\ pasteLog' = None
    /\ UNCHANGED <<arg, ret, planJson, authUser, remotePlan, form, calls>>

\* handleSurveyCancel: setCurrentSurvey(null)
HandleSurveyCancel ==
    /\ DashboardRendered
    /\ IsSome(dashboard.currentSurvey)
    /\ dashboard' = [dashboard EXCEPT !.currentSurvey = None, !.toast = None]
    /\ lastCall' = None
    /\ pasteLog' = None
    /\ UNCHANGED <<arg, ret, planJson, authUser, storage, remotePlan, hook, form,
                   calls>>

(***************************************************************************)
(* SurveyLimitModal                                                         *)
(***************************************************************************)
MaxTimers == 3

\* the value Infinity
Infinity == -2

\* (surveysCompletedToday / dailyLimit) * 100, in hundredths
modalProgress(surveysCompletedToday, dailyLimit) ==
    IF dailyLimit # 0 THEN (surveysCompletedToday * 10000) \div dailyLimit
    ELSE IF surveysCompletedToday = 0 THEN NaN
    ELSE Infinity

\* the props of the effect's dependency list: [isOpen, surveysCompletedToday,
\* dailyLimit]
ModalDeps ==
    [ isOpen |-> dashboard.showLimitModal, surveysCompletedToday |-> CompletedToday,
      dailyLimit |-> DailyLimit ]

\* the effect, after the mount and after every render that changed a
\* dependency: if (isOpen) { setIsVisible(true); setTimeout(..., 100) }
\* else { setTimeout(() => setIsVisible(false), 300); setProgress(0) }
ModalEffect ==
    /\ DashboardRendered
    /\ dashboard.deps # Some(ModalDeps)
    /\ Len(dashboard.timers) < MaxTimers
    /\ dashboard' =
          IF dashboard.showLimitModal
          THEN [dashboard EXCEPT
                  !.isVisible = TRUE,
                  !.timers = Append(@, [ kind |-> "progress",
                                         value |-> modalProgress(CompletedToday,
                                                                 DailyLimit) ]),
                  !.deps = Some(ModalDeps)]
          ELSE [dashboard EXCEPT
                  !.progress = 0,
                  !.timers = Append(@, [kind |-> "hide", value |-> 0]),
                  !.deps = Some(ModalDeps)]
    /\ UNCHANGED <<arg, ret, planJson, authUser, storage, remotePlan, hook, form,
                   calls, lastCall, pasteLog>>

\* timer i fires: the effect returns no cleanup, so that every timer it
\* started runs.  A timer of 300 ms fires after every timer started before
\* it, a timer of 100 ms after every timer of 100 ms started before it.
TimerFires ==
    \E i \in DOMAIN dashboard.timers :
       LET timer == dashboard.timers[i]
           rest  == SubSeq(dashboard.timers, 1, i - 1)
                       \o SubSeq(dashboard.timers, i + 1, Len(dashboard.timers))
       IN  /\ \A j \in 1..(i - 1) :
                 timer.kind = "progress" /\ dashboard.timers[j].kind = "hide"
           /\ dashboard' =
                 IF timer.kind = "hide"
                 THEN [dashboard EXCEPT !.isVisible = FALSE, !.timers = rest]
                 ELSE [dashboard EXCEPT !.progress = timer.value, !.timers = rest]
           /\ UNCHANGED <<arg, ret, planJson, authUser, storage, remotePlan, hook,
                          form, calls, lastCall, pasteLog>>

\* the close buttons of the visible modal: onClose={() =>
\* setShowLimitModal(false)}
CloseModal ==
    /\ DashboardRendered
    /\ dashboard.isVisible
    /\ dashboard.showLimitModal
    /\ dashboard' = [dashboard EXCEPT !.showLimitModal = FALSE]
    /\ lastCall' = None
    /\ pasteLog' = None
    /\ UNCHANGED <<arg, ret, planJson, authUser, storage, remotePlan, hook, form,
                   calls>>

(***************************************************************************)
(* The specifications of the session.                                       *)
(***************************************************************************)
Next ==
    \/ \E h \in Hooks : InitializeData(h)
    \/ SetMessage
    \/ Submit
    \/ FinishVerify
    \/ Paste
    \/ \E i \in DOMAIN calls : FinishUpgrade(i)

Spec == Init /\ [][Next]_vars

\* the verification form on its own: its useSurveyData instance and its calls
NextForm ==
    \/ InitializeData("form")
    \/ SetMessage
    \/ Submit
    \/ FinishVerify
    \/ \E i \in DOMAIN calls : FinishUpgrade(i)

SpecForm == Init /\ [][NextForm]_vars

\* the timer of the simulated delay fires: setTimeout(resolve, 1500)
SpecFormLive == SpecForm /\ WF_vars(FinishVerify)

\* the mounts alone: the effect of every mounted instance runs initializeData
NextLoad == \E h \in Hooks : InitializeData(h)

SpecLoad ==
    Init /\ [][NextLoad]_vars /\ \A h \in Hooks : WF_vars(InitializeData(h))

\* the dashboard and the paste handler on their own: surveys are completed on
\* the dashboard's instance while the paste handler's instance upgrades
NextDash ==
    \/ InitializeData("dash")
    \/ InitializeData("paste")
    \/ CompleteSurvey("dash")
    \/ Paste
    \/ \E i \in DOMAIN calls : FinishUpgrade(i)

SpecDash == Init /\ [][NextDash]_vars

\* the operations of useSurveyData called on two instances: completeSurvey and
\* verifyPaymentAndUpgradePlan on the dashboard's, upgradePlan on the paste
\* handler's, so that the event of each upgrade reaches the other instance
NextHook ==
    \/ InitializeData("dash")
    \/ InitializeData("paste")
    \/ CallCompleteSurvey("dash")
    \/ CallUpgradePlan("paste")
    \/ VerifyPaymentAndUpgradePlan("dash")
    \/ \E i \in DOMAIN calls : FinishUpgrade(i)

SpecHook == Init /\ [][NextHook]_vars

\* the Dashboard over its useSurveyData instance, next to the upgrades of the
\* paste handler's instance; the steps of the SurveyLimitModal are in SpecModal
NextDashboard ==
    \/ InitializeData("dash")
    \/ InitializeData("paste")
    \/ StartSurveyClick
    \/ HandleSurveyComplete
    \/ HandleSurveyCancel
    \/ Paste
    \/ \E i \in DOMAIN calls : FinishUpgrade(i)

SpecDashboard == Init /\ [][NextDashboard]_vars

(***************************************************************************)
(* One useSurveyData instance between two renders: calls holds the          *)
(* setSurveyData updaters queued since the last render, ret the queue the   *)
(* last render applied.                                                     *)
(***************************************************************************)
MaxQueued == 3

\* an updater on the captured render instead of on prev
applyUpdater_FromRender(prev, rendered, updater) ==
    IF updater.by = "completeSurvey"
    THEN setSurveyCompleted(rendered, updater.survey)
    ELSE setCurrentPlan(rendered, updater.newPlan)

\* one queued updater, applied to the state the previous one returned
applyUpdater(prev, rendered, updater) ==
    IF updater.by = "completeSurvey"
    THEN setSurveyCompleted(prev, updater.survey)
    ELSE setCurrentPlan(prev, updater.newPlan)

\* the render applies the queue in order; the updaters of upgradePlan and
\* completeSurvey write what they return to the cache, handlePlanUpdate's
\* does not
RECURSIVE ApplyQueue(_, _, _)
ApplyQueue(state, rendered, queue) ==
    IF queue = <<>> THEN state
    ELSE LET updated == applyUpdater(state.surveyData, rendered, Head(queue))
         IN  ApplyQueue([ surveyData |-> updated,
                          storage |-> IF Head(queue).by # "handlePlanUpdate"
                                         /\ IsSome(updated)
                                      THEN updated ELSE state.storage ],
                        rendered, Tail(queue))

InitMirror ==
    /\ arg = None
    /\ ret = None
    /\ planJson = StandardPlans
    /\ authUser = TRUE
    /\ storage \in InitialStorage
    /\ remotePlan = None
    /\ hook = [h \in Hooks |-> IF h = "dash" THEN initializeData(TRUE, TRUE)
                                ELSE HookInit]
    /\ form = FormInit
    /\ calls = <<>>
    /\ lastCall = None
    /\ pasteLog = None
    /\ dashboard = DashboardInit

\* the surveys the queue completes
QueuedSurveys == SelectSeq(calls, LAMBDA u : u.by = "completeSurvey")

\* completeSurvey(surveyId): setSurveyData(prev => ...) is queued
QueueCompleteSurvey ==
    /\ IsSome(hook["dash"].surveyData) /\ hook["dash"].userId
    /\ Len(calls) < MaxQueued
    /\ Len(Get(hook["dash"].surveyData).completedSurveys) + Len(QueuedSurveys)
          < MaxCompleted
    /\ \E i \in DOMAIN surveys :
          calls' = Append(calls, [by |-> "completeSurvey", survey |-> surveys[i]])
    /\ UNCHANGED <<dashboard, arg, ret, planJson, authUser, storage, remotePlan, hook, form,
                   lastCall, pasteLog>>

\* upgradePlan(newPlanName) after the accepted remote update: its updater is
\* queued, then the event it dispatches queues the one of handlePlanUpdate
QueueUpgradePlan ==
    /\ Len(calls) + 2 <= MaxQueued
    /\ \E i \in DOMAIN planJson :
          /\ upgradePlanProceeds(ClosureOf("dash"), planJson[i].planName)
          /\ calls' = calls \o
                << [by |-> "upgradePlan", newPlan |-> planJson[i].planName],
                   [by |-> "handlePlanUpdate", newPlan |-> planJson[i].planName] >>
          /\ remotePlan' = Some(planJson[i].planName)
    /\ UNCHANGED <<dashboard, arg, ret, planJson, authUser, storage, hook, form, lastCall,
                   pasteLog>>

\* React renders the instance: the queued updaters run in order
Render ==
    /\ calls # <<>>
    /\ LET rendered == hook["dash"].surveyData
           state    == ApplyQueue([surveyData |-> rendered, storage |-> storage],
                                  rendered, calls)
       IN  /\ hook' = [hook EXCEPT !["dash"].surveyData = state.surveyData]
           /\ storage' = state.storage
    /\ ret' = Some(calls)
    /\ calls' = <<>>
    /\ UNCHANGED <<dashboard, arg, planJson, authUser, remotePlan, form, lastCall, pasteLog>>

NextMirror == QueueCompleteSurvey \/ QueueUpgradePlan \/ Render

SpecMirror == InitMirror /\ [][NextMirror]_vars

\* the Dashboard of a loaded instance with its SurveyLimitModal: the effect of
\* the modal and its timers
NextModal ==
    \/ StartSurveyClick
    \/ HandleSurveyComplete
    \/ HandleSurveyCancel
    \/ CloseModal
    \/ ModalEffect
    \/ TimerFires

SpecModal == InitMirror /\ [][NextModal]_vars


(***************************************************************************)
(* Properties of verifyMessage (SpecVerifier).                              *)
(***************************************************************************)
\* the message contains the merchant marker, compared case-insensitively
HasMarker(m) == \E i \in 1..Len(m) : LitAt(m, i, REQUIRED_MERCHANT_TEXT)

Verified == Get(ret)

\* C7 as stated: every message without the marker is invalid with the
\* merchant-verification-failed reason, containsRequiredText = false and no
\* extracted field.
C7_NoMarkerMerchantFailed ==
    (ret # None /\ ~HasMarker(arg)) =>
        /\ Verified.isValid = FALSE
        /\ Verified.message = MsgMerchantFailed
        /\ Verified.details = NoDetails

\* C7 amended: every message without the marker is invalid, with
\* containsRequiredText = false and no extracted field; the reason is the
\* merchant-verification-failed one for a non-empty message and "Invalid
\* message format" for the empty message.
C7_NoMarkerInvalid ==
    (ret # None /\ ~HasMarker(arg)) =>
        /\ Verified.isValid = FALSE
        /\ Verified.details = NoDetails
        /\ Verified.message =
              IF arg = <<>> THEN MsgInvalidFormat ELSE MsgMerchantFailed

\* a message without the marker whose amount and transaction id could be read
C7_Witness ==
    /\ ret # None
    /\ arg # <<>>
    /\ ~HasMarker(arg)
    /\ IsSome(AmountMatch(arg))
    /\ IsSome(TxnMatch(arg))
    /\ Verified.message = MsgMerchantFailed

\* C8: every message with the marker is valid with containsRequiredText =
\* true, whichever of the extractable fields are absent.
C8_MarkerValid ==
    (ret # None /\ HasMarker(arg)) =>
        /\ Verified.isValid = TRUE
        /\ Verified.message = MsgVerified
        /\ Verified.details.containsRequiredText = TRUE

\* a verified message in mixed case with none of the four fields
C8_Witness ==
    /\ ret # None
    /\ HasMarker(arg)
    /\ ~Includes(arg, REQUIRED_MERCHANT_TEXT)
    /\ Verified.isValid = TRUE
    /\ Verified.details.amount = None
    /\ Verified.details.transactionId = None
    /\ Verified.details.timestamp = None
    /\ Verified.details.merchantName = None

(***************************************************************************)
(* Properties of getPlanByAmount (SpecResolver).                            *)
(***************************************************************************)
Resolved == Get(ret)

\* the prices of the list, and those of its paid tiers
TierPrices(plans) == {ParseFloat(plans[i].price) : i \in DOMAIN plans}
PaidTierPrices(plans) == {x \in TierPrices(plans) : x > 0}

\* C9 as stated: an amount equal to the price of some tier of the list
\* resolves to a tier of that price.
C9_ExactAnyTier ==
    (ret # None /\ arg.amount \in TierPrices(arg.plans)) =>
        /\ IsSome(Resolved)
        /\ ParseFloat(Get(Resolved).price) = arg.amount

\* C9 amended: an amount equal to the price of some paid tier (price > 0) of
\* the list resolves to a tier of that price.
C9_ExactPaidTier ==
    (ret # None /\ arg.amount \in PaidTierPrices(arg.plans)) =>
        /\ IsSome(Resolved)
        /\ ParseFloat(Get(Resolved).price) = arg.amount

\* an exact match that has a cheaper and a dearer paid tier before it in the list
C9_Witness ==
    /\ ret # None
    /\ Len(arg.plans) >= 3
    /\ ParseFloat(arg.plans[3].price) = arg.amount
    /\ ParseFloat(arg.plans[1].price) > arg.amount
    /\ ParseFloat(arg.plans[2].price) \in 1..(arg.amount - 1)
    /\ Resolved = Some(arg.plans[3])

\* C10: an amount that is no paid tier's price resolves to the cheapest paid
\* tier priced at or above it, and to the dearest paid tier when it exceeds
\* them all.
C10_NearestHigherOrTop ==
    LET paid == PaidTierPrices(arg.plans)
        over == {x \in paid : x >= arg.amount}
    IN  (ret # None /\ paid # {} /\ arg.amount \notin paid) =>
            /\ IsSome(Resolved)
            /\ \E i \in DOMAIN arg.plans : arg.plans[i] = Get(Resolved)
            /\ ParseFloat(Get(Resolved).price) =
                  IF over # {} THEN Min(over) ELSE Max(paid)

\* prices 1000, 0, 500, 250 in this order: 300 resolves to the 500 tier
C10_Witness ==
    /\ ret # None
    /\ Len(arg.plans) = 4
    /\ arg.amount = 30000
    /\ [i \in 1..4 |-> arg.plans[i].price] = <<Price1000, Price0, Price500, Price250>>
    /\ Resolved = Some(arg.plans[3])

\* C11: getPlanByAmount returns null exactly when the list has no tier priced
\* above 0; a tier it returns is a tier of the list priced above 0; the list
\* passed in is the same after the call.
C11_AbsentIffNoPaidTier ==
    [][ (ret = None /\ ret' # None) =>
            /\ (Get(ret') = None) <=> (PaidTierPrices(arg.plans) = {})
            /\ IsSome(Get(ret')) =>
                  /\ ParseFloat(Get(Get(ret')).price) > 0
                  /\ \E i \in DOMAIN arg.plans : arg.plans[i] = Get(Get(ret'))
            /\ arg'.plans = arg.plans ]_vars

\* amount 0 on a list of free tiers only has resolved to null
C11_Witness ==
    /\ ret # None
    /\ Resolved = None
    /\ arg.amount = 0
    /\ Len(arg.plans) = 2
    /\ TierPrices(arg.plans) = {0}

(***************************************************************************)
(* Properties of getPlanByAmount on two amounts (SpecResolverPair).         *)
(***************************************************************************)
\* C12: with a paid tier in the list and amount1 < amount2, both amounts
\* resolve, the price resolved for amount1 is at most the one resolved for
\* amount2, and both are the top price when amount1 exceeds every price.
C12_Monotonic ==
    LET paid == PaidTierPrices(arg.plans)
    IN  (ret # None /\ paid # {}) =>
            /\ IsSome(Get(ret)[1])
            /\ IsSome(Get(ret)[2])
            /\ ParseFloat(Get(Get(ret)[1]).price) <= ParseFloat(Get(Get(ret)[2]).price)
            /\ arg.amount1 > Max(paid) =>
                  /\ ParseFloat(Get(Get(ret)[1]).price) = Max(paid)
                  /\ ParseFloat(Get(Get(ret)[2]).price) = Max(paid)

\* 300 and 5000 on prices 1000, 250, 500: the 500 tier and the top tier
C12_Witness ==
    /\ ret # None
    /\ arg.amount1 = 30000
    /\ arg.amount2 = 500000
    /\ [i \in DOMAIN arg.plans |-> arg.plans[i].price] = <<Price1000, Price250, Price500>>
    /\ Get(ret) = <<Some(arg.plans[3]), Some(arg.plans[1])>>

(***************************************************************************)
(* Properties of validateUpgrade (SpecValidator).                           *)
(***************************************************************************)
Validated == Get(ret)

\* the name is the planName of a tier of the list
Known(plans, name) == \E i \in DOMAIN plans : plans[i].planName = name

\* the price of the tier of that name (names are unique in a list)
PriceNamed(plans, name) ==
    ParseFloat(plans[CHOOSE i \in DOMAIN plans : plans[i].planName = name].price)

\* C13 as stated: validateUpgrade(X, X, tiers) succeeds for every name X and
\* every tier list.
C13_SameTierAlways ==
    (ret # None /\ arg.currentPlanName = arg.targetPlanName) =>
        Validated.isValid

\* C13 amended: validateUpgrade(X, X, tiers) succeeds for every X that names a
\* tier of the list.
C13_SameKnownTier ==
    (/\ ret # None
     /\ arg.currentPlanName = arg.targetPlanName
     /\ Known(arg.plans, arg.currentPlanName)) =>
        /\ Validated.isValid
        /\ Validated.message = MsgValidated

\* Gold to Gold on a list that holds Gold
C13_Witness ==
    /\ ret # None
    /\ arg.currentPlanName = "Gold"
    /\ arg.targetPlanName = "Gold"
    /\ Len(arg.plans) >= 3
    /\ Validated.isValid

\* C14: for two known tiers, a dearer target validates, a cheaper target fails
\* with the downgrade reason, and a different tier of equal price validates.
C14_UpgradeDirection ==
    (/\ ret # None
     /\ Known(arg.plans, arg.currentPlanName)
     /\ Known(arg.plans, arg.targetPlanName)) =>
        LET currentPrice == PriceNamed(arg.plans, arg.currentPlanName)
            targetPrice  == PriceNamed(arg.plans, arg.targetPlanName)
        IN  /\ currentPrice < targetPrice => Validated.isValid
            /\ currentPrice > targetPrice =>
                  /\ ~Validated.isValid
                  /\ Validated.message = MsgDowngrade
            /\ (currentPrice = targetPrice /\ arg.currentPlanName # arg.targetPlanName)
                  => Validated.isValid

\* Gold at 500 to Silver at 250 has failed with the downgrade reason
C14_Witness ==
    /\ ret # None
    /\ arg.currentPlanName = "Gold"
    /\ arg.targetPlanName = "Silver"
    /\ Len(arg.plans) >= 3
    /\ arg.plans[2].price = Price250
    /\ arg.plans[3].price = Price500
    /\ Validated = [isValid |-> FALSE, message |-> MsgDowngrade]

\* C15: when the current name or the target name is no tier of the list the
\* result is invalid with "Invalid plan selection", whatever the prices.
C15_UnknownPlanInvalid ==
    (/\ ret # None
     /\ \/ ~Known(arg.plans, arg.currentPlanName)
        \/ ~Known(arg.plans, arg.targetPlanName)) =>
        Validated = [isValid |-> FALSE, message |-> MsgInvalidPlan]

\* an unknown current plan with a known free target: no downgrade is reported
C15_Witness ==
    /\ ret # None
    /\ arg.currentPlanName = "Elite"
    /\ arg.targetPlanName = "Starter"
    /\ Len(arg.plans) >= 1
    /\ arg.plans[1].price = Price0
    /\ Validated.message = MsgInvalidPlan

(***************************************************************************)
(* Properties of extractPaymentInfo (SpecExtractor).                        *)
(***************************************************************************)
\* the templates that match the text
Matching(message) ==
    {n \in DOMAIN patterns : IsSome(PatternMatch(message, patterns[n]))}

\* C16: the first template that matches decides: the result is the rounded
\* amount it captured when the till it captured is 3566188, and absent
\* otherwise, whatever the later templates capture; it is absent when no
\* template matches.
C16_FirstTemplateDecides ==
    ret # None =>
        IF Matching(arg) = {} THEN Get(ret) = None
        ELSE LET match == Get(PatternMatch(arg, patterns[Min(Matching(arg))]))
             IN  IF match.tillNumber = correctTillNumber
                 THEN Get(ret) = Some([ amount  |-> MathRound(ParseFloat(match.amount)),
                                        isValid |-> TRUE ])
                 ELSE Get(ret) = None

(***************************************************************************)
(* Properties of the confirmation of 250.00 (SpecScenario).                 *)
(***************************************************************************)
\* the message is verified and, when the list has a tier priced 250, the
\* amount resolves to a tier of that price
ScenarioResolves ==
    /\ Get(ret).verified.isValid
    /\ 25000 \in TierPrices(arg.plans) =>
          /\ IsSome(Get(ret).targetPlan)
          /\ ParseFloat(Get(Get(ret).targetPlan).price) = 25000

\* C17 as stated: the message is valid, details.amount is the text "250", and
\* the amount resolves to the tier priced 250.
C17_AmountText250 ==
    ret # None =>
        /\ ScenarioResolves
        /\ Get(ret).verified.details.amount = Some(<<"2", "5", "0">>)

\* C17 amended: the message is valid, details.amount is the text "250.00" as
\* written in the message, and the amount resolves to the tier priced 250.
C17_AmountTextAsWritten ==
    ret # None =>
        /\ ScenarioResolves
        /\ Get(ret).verified.details.amount = Some(<<"2", "5", "0", ".", "0", "0">>)

\* the confirmation has resolved to the 250 tier of a list that lists a
\* dearer tier first
C17_Witness ==
    /\ ret # None
    /\ Len(arg.plans) = 3
    /\ [i \in 1..3 |-> arg.plans[i].price] = <<Price500, Price0, Price250>>
    /\ Get(ret).verified.isValid
    /\ Get(ret).targetPlan = Some(arg.plans[3])

(***************************************************************************)
(* Properties of the queued updaters (SpecMirror)                           *)
(***************************************************************************)
\* the plan updaters of the queue
QueuedPlans == SelectSeq(calls, LAMBDA u : u.by # "completeSurvey")

\* a render that applies two or more updaters
RendersSeveral == Len(calls) >= 2 /\ calls' = <<>>

\* C18 as stated: two mutations queued in the same tick resolve as last write
\* wins; the mirror after the render reflects the later mutation alone, applied
\* to the rendered state, and the earlier one's change is lost.
C18_LastWriteWins ==
    [][RendersSeveral =>
         hook'["dash"].surveyData =
            applyUpdater(hook["dash"].surveyData, hook["dash"].surveyData,
                         calls[Len(calls)])]_vars

\* C18, amended: the updaters queued in the same tick compose; after the
\* render the mirror holds every queued completion, in order, together with the
\* plan of the last queued plan change, and nothing of the earlier mutation is
\* lost.
C18_UpdatersCompose ==
    [][RendersSeveral =>
         LET before == Get(hook["dash"].surveyData)
             after  == Get(hook'["dash"].surveyData)
         IN  /\ after.surveysCompletedToday =
                   before.surveysCompletedToday + Len(QueuedSurveys)
             /\ after.completedSurveys =
                   before.completedSurveys
                     \o [i \in 1..Len(QueuedSurveys) |-> QueuedSurveys[i].survey.id]
             /\ after.currentPlan =
                   IF QueuedPlans = <<>> THEN before.currentPlan
                   ELSE QueuedPlans[Len(QueuedPlans)].newPlan]_vars

\* a render has applied a completion followed by an upgrade to another plan,
\* and the mirror holds both
C18_Witness ==
    /\ IsSome(ret) /\ calls = <<>>
    /\ Len(Get(ret)) = 3
    /\ Get(ret)[1].by = "completeSurvey"
    /\ Get(ret)[2].by = "upgradePlan"
    /\ Get(ret)[2].newPlan = "Gold"
    /\ Get(hook["dash"].surveyData).completedSurveys = <<"s1">>
    /\ Get(hook["dash"].surveyData).currentPlan = "Gold"
    /\ storage = hook["dash"].surveyData

(***************************************************************************)
(* Properties of initializeData (SpecLoad)                                  *)
(***************************************************************************)
\* C28: the loading flag of every mounted instance eventually becomes false.
C28_LoadingFinishes == \A h \in Hooks : <>(~hook[h].loading)

(***************************************************************************)
(* Properties of the operations of the hook (SpecHook)                      *)
(***************************************************************************)
\* the step ends an upgrade: upgradePlan or verifyPaymentAndUpgradePlan
\* returns, and its event, if any, has been delivered
UpgradeStep ==
    /\ lastCall' # None
    /\ Get(lastCall').by \in {"form", "paste", "upgradePlan",
                             "verifyPaymentAndUpgradePlan"}

\* the step is a call of completeSurvey
CompleteStep == lastCall' # None /\ Get(lastCall').by = "completeSurvey"

\* C21: an upgrade (upgradePlan, verifyPaymentAndUpgradePlan, the
\* plan-upgraded handler) changes no field of an instance's UserProgress but
\* currentPlan; completeSurvey leaves currentPlan and referrals as they were.
C21_FieldOwnership ==
    [][\A h \in Hooks :
          (IsSome(hook[h].surveyData) /\ IsSome(hook'[h].surveyData)) =>
             LET before == Get(hook[h].surveyData)
                 after  == Get(hook'[h].surveyData)
             IN  /\ UpgradeStep =>
                       after = [before EXCEPT !.currentPlan = after.currentPlan]
                 /\ CompleteStep =>
                       /\ after.currentPlan = before.currentPlan
                       /\ after.referrals = before.referrals]_vars

\* verifyPaymentAndUpgradePlan has moved the dashboard's instance, which
\* holds a completed survey, to another plan
C21_Witness ==
    /\ lastCall # None
    /\ Get(lastCall).by = "verifyPaymentAndUpgradePlan"
    /\ Get(lastCall).result
    /\ IsSome(hook["dash"].surveyData)
    /\ Get(hook["dash"].surveyData).currentPlan = "Platinum"
    /\ Get(hook["dash"].surveyData).completedSurveys = <<"s1">>
    /\ Get(hook["dash"].surveyData).totalEarnings = 10

\* C23: when upgradePlan or verifyPaymentAndUpgradePlan returns false, the
\* in-memory UserProgress and verifiedPlan of every instance, the local cache
\* and the remote plan are what they were before the call, and no
\* plan-upgraded event was emitted.
C23_FailedUpgradeChangesNothing ==
    [][(UpgradeStep /\ ~Get(lastCall').result) =>
         /\ hook' = hook
         /\ storage' = storage
         /\ remotePlan' = remotePlan
         /\ Get(lastCall').event = None]_vars

\* the remote update of upgradePlan("Silver") was rejected: the call returned
\* false and the instance is as it was loaded
C23_Witness ==
    /\ lastCall # None
    /\ Get(lastCall).by = "upgradePlan"
    /\ Get(lastCall).target = "Silver"
    /\ ~Get(lastCall).result
    /\ calls = <<>>
    /\ hook["paste"].verifiedPlan = None
    /\ hook["paste"].surveyData = Some(UserProgress("Gold"))
    /\ storage = Some(UserProgress("Gold"))

\* userProgress names a tier of the plan configuration
NamesTier(userProgress) ==
    \E i \in DOMAIN planJson : planJson[i].planName = userProgress.currentPlan

\* C29: no step of upgradePlan, verifyPaymentAndUpgradePlan, completeSurvey or
\* of the delivery of a plan-upgraded event takes the currentPlan of a loaded
\* instance, or of the cache, from a tier of the plan configuration to a name
\* that is no tier.
C29_PlanStaysATier ==
    [][/\ \A h \in Hooks :
            (/\ hook[h].pc = "ready" /\ IsSome(hook[h].surveyData)
             /\ NamesTier(Get(hook[h].surveyData)))
            => /\ IsSome(hook'[h].surveyData)
               /\ NamesTier(Get(hook'[h].surveyData))
       /\ (IsSome(storage) /\ NamesTier(Get(storage)))
            => (IsSome(storage') /\ NamesTier(Get(storage')))]_vars

\* upgradePlan was called with a name that is no tier and returned false at
\* its lookup, on an instance that is loaded and holds a tier
C29_Witness ==
    /\ lastCall # None
    /\ Get(lastCall).by = "upgradePlan"
    /\ Get(lastCall).target = "Diamond"
    /\ ~Get(lastCall).result
    /\ hook["paste"].planData /\ hook["paste"].userId
    /\ IsSome(hook["paste"].surveyData)
    /\ NamesTier(Get(hook["paste"].surveyData))

\* the reward of the survey of that id, if the list holds it
RewardOf(surveyId) ==
    LET survey == Find(surveys, LAMBDA sv : sv.id = surveyId)
    IN  IF IsSome(survey) THEN Some(Get(survey).reward) ELSE None

\* C30: a call of completeSurvey returns true exactly when a user is signed
\* in, survey data is loaded and the list holds the survey; it then adds 1 to
\* surveysCompletedToday, the survey's reward to totalEarnings and to
\* pendingEarnings, and the id to the end of completedSurveys; a call that
\* returns false changes nothing.  No step of any operation changes
\* totalEarnings - pendingEarnings of a loaded instance.
C30_EarningsAccounting ==
    [][/\ CompleteStep =>
            LET call   == Get(lastCall')
                h      == call.hook
                reward == RewardOf(call.target)
            IN  /\ call.result <=>
                      (IsSome(hook[h].surveyData) /\ hook[h].userId /\ IsSome(reward))
                /\ ~call.result => (hook' = hook /\ storage' = storage)
                /\ call.result =>
                      LET before == Get(hook[h].surveyData)
                          after  == Get(hook'[h].surveyData)
                      IN  /\ after.surveysCompletedToday
                                = before.surveysCompletedToday + 1
                          /\ after.totalEarnings = before.totalEarnings + Get(reward)
                          /\ after.pendingEarnings
                                = before.pendingEarnings + Get(reward)
                          /\ after.completedSurveys
                                = Append(before.completedSurveys, call.target)
       /\ \A h \in Hooks :
            (IsSome(hook[h].surveyData) /\ IsSome(hook'[h].surveyData)) =>
               Get(hook'[h].surveyData).totalEarnings
                  - Get(hook'[h].surveyData).pendingEarnings
               = Get(hook[h].surveyData).totalEarnings
                  - Get(hook[h].surveyData).pendingEarnings]_vars

\* the second call of completeSurvey("s1") on the dashboard's instance has
\* returned true
C30_Witness ==
    /\ lastCall # None
    /\ Get(lastCall).by = "completeSurvey"
    /\ Get(lastCall).result
    /\ Get(hook["dash"].surveyData).completedSurveys = <<"s1", "s1">>
    /\ Get(hook["dash"].surveyData).surveysCompletedToday = 2
    /\ Get(hook["dash"].surveyData).totalEarnings = 20
    /\ Get(hook["dash"].surveyData).pendingEarnings = 20

(***************************************************************************)
(* Properties of the Dashboard (SpecDashboard)                              *)
(***************************************************************************)
\* currentPlan of the dashboard's instance names no tier of the configuration
DanglingPlan ==
    /\ DashboardRendered
    /\ \A i \in DOMAIN planJson :
          planJson[i].planName # Get(hook["dash"].surveyData).currentPlan

\* C22: while currentPlan names no tier of the plan configuration,
\* getCurrentPlan yields no plan, the Dashboard shows "No Plan" with a daily
\* limit of 0, no survey is in progress and none is started: a click on Start
\* Survey opens the limit modal instead, and no error toast is shown.
C22_DanglingPlanIsNoPlan ==
    [][DanglingPlan =>
         /\ getCurrentPlan("dash") = None
         /\ ShownPlanName = "No Plan"
         /\ DailyLimit = 0
         /\ dashboard.currentSurvey = None
         /\ dashboard'.currentSurvey = None
         /\ dashboard'.toast = None
         /\ dashboard' # dashboard => dashboard'.showLimitModal]_vars

\* Start Survey was clicked while the cached plan is no tier of the
\* configuration: the limit modal is open and no survey is in progress
C22_Witness ==
    /\ DanglingPlan
    /\ Get(hook["dash"].surveyData).currentPlan = "Gold"
    /\ dashboard.showLimitModal
    /\ dashboard.currentSurvey = None

\* C24: on the Dashboard, surveysCompletedToday never exceeds the dailySurvey
\* of the plan the instance holds at that moment.
C24_QuotaNeverExceeded ==
    (DashboardRendered /\ IsSome(getCurrentPlan("dash")))
    => CompletedToday <= DailyLimit

(***************************************************************************)
(* Properties of the cache (SpecDash)                                       *)
(***************************************************************************)
\* C19: whenever the in-memory UserProgress of a loaded instance of a signed-in
\* user is mutated (by upgradePlan, completeSurvey or the plan-upgraded
\* handler), the cache entry of the user afterwards equals that instance's
\* in-memory UserProgress.
C19_CacheFlushedAfterMutation ==
    [][\A h \in Hooks :
          (/\ hook[h].pc = "ready" /\ hook[h].userId
           /\ hook'[h].surveyData # hook[h].surveyData)
          => storage' = hook'[h].surveyData]_vars

\* C25: the step that ends an upgrade never lowers the cached totalEarnings
\* and pendingEarnings and never drops a cached completed survey.
C25_UpgradeKeepsCachedEarnings ==
    [][(Len(calls') < Len(calls) /\ IsSome(storage)) =>
         /\ IsSome(storage')
         /\ Get(storage').totalEarnings >= Get(storage).totalEarnings
         /\ Get(storage').pendingEarnings >= Get(storage).pendingEarnings
         /\ Len(Get(storage').completedSurveys) >= Len(Get(storage).completedSurveys)
         /\ SubSeq(Get(storage').completedSurveys, 1,
                   Len(Get(storage).completedSurveys))
              = Get(storage).completedSurveys]_vars

(***************************************************************************)
(* Properties of the upgrade flows (Spec).                                  *)
(***************************************************************************)
\* the price of the plan of that name in /plan.json, NaN for an unknown name
PlanPrice(name) ==
    LET plan == Find(planJson, LAMBDA p : p.planName = name)
    IN  IF IsSome(plan) THEN ParseFloat(Get(plan).price) ELSE NaN

\* the step does not replace the plan held before it by a cheaper one
NotCheaper(before, after) ==
    (IsSome(before) /\ IsSome(after)) =>
        ~NumGt(PlanPrice(Get(before)), PlanPrice(Get(after)))

PlanIn(progress) ==
    IF IsSome(progress) THEN Some(Get(progress).currentPlan) ELSE None

\* C1: no step changes the in-memory currentPlan of an instance, the cached
\* one or the remote one to a plan cheaper than the one held before the step.
C1_NoDowngrade ==
    [][ /\ \A h \in Hooks :
              NotCheaper(PlanIn(hook[h].surveyData), PlanIn(hook'[h].surveyData))
        /\ NotCheaper(PlanIn(storage), PlanIn(storage'))
        /\ NotCheaper(remotePlan, remotePlan') ]_vars

\* C2: when upgradePlan(target) has just returned true, the remote update to
\* target was accepted, the instance's in-memory currentPlan is target and a
\* plan-upgraded event carrying target was emitted.
C2_SuccessMeansCommitted ==
    (lastCall # None /\ Get(lastCall).result) =>
        LET call == Get(lastCall)
        IN  /\ call.accepted
            /\ remotePlan = Some(call.target)
            /\ PlanIn(hook[call.hook].surveyData) = Some(call.target)
            /\ call.event = Some(call.target)

\* an upgrade started from the form has just succeeded and reached an instance
\* other than the caller's
C2_Witness ==
    /\ lastCall # None
    /\ Get(lastCall).result
    /\ Get(lastCall).by = "form"
    /\ Get(lastCall).target = "Platinum"
    /\ PlanIn(hook["dash"].surveyData) = Some("Platinum")

\* C3: a submission or a paste whose remote update was rejected reports
\* failure: no success toast and no onVerificationComplete with upgrade info.
C3_RejectionReported ==
    /\ form.sub.upgrade = "rejected" =>
          /\ "Plan Upgraded Successfully!" \notin form.sub.toasts
          /\ \A k \in DOMAIN form.sub.callbacks : ~form.sub.callbacks[k].upgraded
    /\ (pasteLog # None /\ Get(pasteLog).upgrade = "rejected") =>
          Get(pasteLog).toast = "Upgrade Failed"

MarkerIn == [m \in FormMessages |-> HasMarker(m)]

\* the plan configurations that have a tier to pay for
HasPaidTier == [surveyPlans \in PlanConfigs |-> PaidTierPrices(surveyPlans) # {}]

ReasonToasts == {"Verification Failed", "Invalid Payment", "No Plan Found"}

\* handleVerify ends in this step
VerifyEnds == form.pc = "delay" /\ form'.pc = "idle"

\* C4: upgradePlan is invoked only in the step that ends a verification in
\* progress, and only for a message with the marker under a configuration
\* with a paid tier; a verification that ends without invoking it shows a
\* reason and leaves neither isVerifying nor isUpgrading set.
C4_UpgradingOnlyFromVerified ==
    [][ /\ (~form.sub.invoked /\ form'.sub.invoked) =>
              /\ VerifyEnds
              /\ form.isVerifying
              /\ MarkerIn[form.message]
              /\ HasPaidTier[planJson]
        /\ (VerifyEnds /\ ~form'.sub.invoked) =>
              /\ form'.sub.toasts \cap ReasonToasts # {}
              /\ form'.sub.upgrade = "none"
              /\ calls' = calls
              /\ ~form'.isVerifying
              /\ ~form'.isUpgrading ]_vars

\* both outcomes have happened: a verification that invoked upgradePlan, and
\* the call it made is pending
C4_Witness ==
    /\ form.pc = "idle"
    /\ form.sub.invoked
    /\ form.sub.upgrade = "pending"
    /\ \E i \in DOMAIN calls : calls[i].by = "form"

\* C5: a submission in progress is always followed by a state in which the
\* form is neither verifying nor upgrading.
C5_ReturnsToIdle ==
    form.isVerifying ~> (~form.isVerifying /\ ~form.isUpgrading)

\* a submission in which onVerificationComplete threw has returned to idle
C5_Witness ==
    /\ form.pc = "idle"
    /\ "Verification Error" \in form.sub.toasts
    /\ ~form.isVerifying
    /\ ~form.isUpgrading

\* the last submission ended in a failure
SubmissionFailed ==
    \/ form.sub.toasts \cap ReasonToasts # {}
    \/ "Verification Error" \in form.sub.toasts
    \/ form.sub.upgrade \in {"rejected", "refused"}

\* C6: after a failed submission the message input is enabled and the verify
\* button is disabled for no other reason than a blank message.
C6_FailuresRecoverable ==
    (form.pc = "idle" /\ SubmissionFailed) =>
        /\ ~InputDisabled
        /\ ~(form.isVerifying \/ form.isUpgrading \/ ResultIsValid)

\* C26: the step that ends a verification has invoked onVerificationComplete
\* exactly once, and with verified true only for a message that carries the
\* merchant marker.
C26_CallbackExactlyOnce ==
    [][VerifyEnds =>
         /\ Len(form'.sub.callbacks) = 1
         /\ \A i \in DOMAIN form'.sub.callbacks :
               form'.sub.callbacks[i].verified => MarkerIn[form.message]]_vars

(***************************************************************************)
(* Properties of the SurveyLimitModal (SpecModal)                           *)
(***************************************************************************)
\* the effect has run for the props of the last render and no timer is pending
ModalSettled == dashboard.deps = Some(ModalDeps) /\ dashboard.timers = <<>>

\* C27: once the effect has run and every pending timer has fired, isVisible
\* equals isOpen.
C27_VisibleFollowsOpen ==
    ModalSettled => (dashboard.isVisible <=> dashboard.showLimitModal)

=============================================================================
